---- MODULE Spec2Model ----
(***************************************************************************)
(* Session manager of the signal engine (server/services/sessionManager.ts) *)
(* as a state machine: sessions, their pre-close timers, the asynchronous   *)
(* startSession / stopSession / restartSession calls split at their awaits, *)
(* the wall clock in whole seconds (nowEpoch), the feed and the candle      *)
(* aggregator.  derivFeed.ts and candleAggregator.ts are not part of the    *)
(* sources at hand: they are modelled from sections 4.1 and 4.2 of the      *)
(* specification.                                                           *)
(***************************************************************************)
EXTENDS Integers, Sequences, FiniteSets, TLC

\* ------------------------------------------------------------------ bounds
\* First and last second of the wall clock the model explores.
StartTime == 52
MaxTime == 118
\* A timer callback runs at most this many whole seconds after its due second.
MaxLate == 0

\* In the specification of late timers a due timer runs before it is more
\* than this many seconds late.
MaxTimerLate == 4

\* getDebugSignal is called at most this many times.
MaxDebugCalls == 2

\* saveSignal is followed this many times, from an empty list and from a
\* list one short of the cap.
MaxSaves == 4
\* Requests from outside explored in one run: startSession and stopSession
\* calls and losses of the feed connection.
MaxRequests == 3
\* The seconds after StartTime in which the sessions of a pair are started.
PairCallWindow == 2
\* Disconnects of the feed followed in the specification with reconnects.
MaxReconnects == 1
\* Seconds that may pass between two generateSignal calls with the same
\* arguments.
MaxCallGap == 2
\* Seconds by which the epoch of a tick may lag behind the clock at delivery.
MaxTickLag == 1
\* Ticks followed where the forming candle's tickCount is counted.
MaxTicks == 3

\* ------------------------------------------------------- program constants
preCloseSeconds == 4
historyCandles == 300
windowCapacity == 500
pollDelaySeconds == 1
minNextDelaySeconds == 1

TIMEFRAMES == {60, 120, 300, 900, 1800, 3600}

\* Timeframes a caller passes to startSession: a supported one and one that
\* is not in TIMEFRAMES.
TimeframeInputs == {60, 45}

\* Entry points that call sessionManager.startSession.
EntryPoints == {"http", "chat"}

SessionIds == {"s1", "s2"}
\* The ids the default specification starts sessions for.
SoloIds == {"s1"}
ChatIds == {7}

\* undefined for a number-valued field
None == 0 - 1

Max(a, b) == IF a >= b THEN a ELSE b

\* ------------------------------------------------------------------- state
VARIABLES
  now,          \* nowEpoch(): wall clock in whole seconds
  sessions,     \* SessionManager.sessions: id -> ActiveSession (or NoSession)
  timers,       \* the pending setTimeout timers of the scheduler
  tickHandlers, \* SessionManager.tickHandlers: ids with an entry
  listeners,    \* handlers registered on derivFeed, in registration order
  windows,      \* candleAggregator: timeframe -> window (one symbol)
  connected,    \* derivFeed.isConnected()
  refCount,     \* derivFeed: reference count of the symbol's tick subscription
  startCall,    \* id -> the in-flight startSession call and the await it is at
  stopPending,  \* id -> stopSession calls awaiting unsubscribeTicks
  restartCall,  \* id -> await an in-flight restartSession call is at
  emitted,      \* history: the preCloseSignal events emitted, in order
  outcome,      \* history: id -> how the last startSession call ended
  started,      \* history: id -> number of sessionStarted events
  stoppedEv,    \* history: id -> number of sessionStopped events
  unsubCalls,   \* history: id -> unsubscribeTicks calls issued
  subCalls,     \* history: id -> subscribeTicks calls issued
  stopCalled,   \* history: stopSession(id) has been called
  requests,     \* startSession and stopSession calls and disconnects so far
  call,         \* signal engine: a generateSignal call, its arguments and result
  storage,      \* the sessions table of SQLiteStorage and the handlers writing it
  lastTick,     \* history: the epoch of the last tick the feed delivered
  secondCall,   \* id -> a startSession call that overlaps the one in startCall
  ticks,        \* history: the ticks the feed delivered and the forming
                \* candles' tickCount, where ticks are counted
  debug,        \* history: the getDebugSignal calls and what the last returned
  mem           \* MemStorage.signals, and the last getSignals call on it

vars == <<now, sessions, timers, tickHandlers, listeners, windows, connected,
          refCount, startCall, stopPending, restartCall, emitted, outcome,
          started, stoppedEv, unsubCalls, subCalls, stopCalled, requests,
          call, storage, lastTick, secondCall, ticks, debug, mem>>

\* A timer handle: the session it was armed for, what its callback does, the
\* second it is due and, for the deadline timer, the forming candle and the
\* close time its closure captured.
NoTimer == [id |-> "", kind |-> "none", due |-> 0, forming |-> None, close |-> 0]

NoSession == [status |-> "none", chatId |-> 0, timeframe |-> 0,
              lastSignalAt |-> None, lastSignalCandleTimestamp |-> None,
              preCloseTimer |-> NoTimer]

NoWindow == [exists |-> FALSE, closed |-> <<>>, forming |-> None]

IdleCall == [stage |-> "idle", timeframe |-> 0, chatId |-> 0]

\* No handler is running and the sessions table of the storage is empty.
NoStorage ==
  [rows |-> [s \in SessionIds |-> "none"],
   handler |-> [s \in SessionIds |-> [start |-> "", stop |-> ""]]]

\* No tick was delivered.  total: the ticks delivered; per timeframe, bucket
\* and received: the bucket of the last tick and the ticks delivered in it;
\* count: the tickCount of the forming candle.
NoTicks ==
  [total |-> 0, bucket |-> [tf \in TimeframeInputs |-> None],
   received |-> [tf \in TimeframeInputs |-> 0],
   count |-> [tf \in TimeframeInputs |-> 0]]

\* getDebugSignal was never called.  calls: the calls so far; returned: what
\* the last call returned, with the close time and the forming candle of the
\* signal it built; sent: the signals the Re-run Signal action sent.
NoDebug ==
  [calls |-> 0, returned |-> "none", timeframe |-> 0,
   candleCloseTime |-> None, formingCandle |-> None, sent |-> 0]

\* MemStorage as constructed: no signal is kept and getSignals was not
\* called.  serial: the signals saved so far; saves: the saveSignal calls
\* followed; asked, sessionId, limit, result: the last getSignals call on
\* the list as it is, and what it returned.
NoMem ==
  [signals |-> <<>>, serial |-> 0, saves |-> 0, asked |-> FALSE,
   sessionId |-> "", limit |-> 0, result |-> <<>>]

\* ------------------------------------------------------------ utils/time.ts
getCandleBoundary(timestamp, timeframeSec) ==
  (timestamp \div timeframeSec) * timeframeSec

\* The close time taken as the next multiple at or after the timestamp.
getCandleCloseTimeCeil(timestamp, timeframeSec) ==
  ((timestamp + timeframeSec - 1) \div timeframeSec) * timeframeSec

getCandleCloseTime(timestamp, timeframeSec) ==
  getCandleBoundary(timestamp, timeframeSec) + timeframeSec

\* scheduleAt with the delay clamped from the wrong side: it is never positive.
scheduleAtDueNow(epochSeconds) == now

\* scheduleAt with a delay one second short.
scheduleAtDueEarly(epochSeconds) == now + Max(0, epochSeconds - now - 1)

\* scheduleAt(epochSeconds, cb): the second the callback becomes due.
scheduleAtDue(epochSeconds) == now + Max(0, epochSeconds - now)

\* ------------------------------------------------ candle aggregator (4.2)
RECURSIVE StartsBefore(_, _)
\* The starts of the buckets of a timeframe that closed before time t.
StartsBefore(t, tf) ==
  IF t < tf THEN <<>>
  ELSE Append(StartsBefore(t - tf, tf), getCandleBoundary(t, tf) - tf)

KeepLast(seq, n) ==
  IF Len(seq) <= n THEN seq ELSE SubSeq(seq, Len(seq) - n + 1, Len(seq))

\* fetchCandleHistory(symbol, tf, count): the count most recent closed candles.
fetchCandleHistory(tf, count) == KeepLast(StartsBefore(now, tf), count)

\* initialize that takes the last candle of the history for the forming one.
initializeLastForming(ws, tf, candles, capacity) ==
  [ws EXCEPT ![tf] = [exists |-> TRUE, closed |-> KeepLast(candles, capacity),
                      forming |-> IF candles = <<>> THEN None
                                  ELSE candles[Len(candles)]]]

\* initialize: seed the closed buffer; the forming candle is cleared.
initialize(ws, tf, candles, capacity) ==
  [ws EXCEPT ![tf] = [exists |-> TRUE, closed |-> KeepLast(candles, capacity),
                      forming |-> None]]

\* processTick on one window.
processTick(w, epoch, tf) ==
  LET bucket == getCandleBoundary(epoch, tf) IN
  IF w.forming = None
    THEN [exists |-> TRUE, closed |-> w.closed, forming |-> bucket]
  ELSE IF bucket = w.forming THEN w
  ELSE IF bucket > w.forming
    THEN [exists |-> TRUE,
          closed |-> KeepLast(Append(w.closed, w.forming), windowCapacity),
          forming |-> bucket]
  ELSE w

getFormingCandle(tf) == windows[tf].forming

getClosedCandles(tf) == windows[tf].closed

cleanupWindow(ws, tf) == [ws EXCEPT ![tf] = NoWindow]

\* ------------------------------------------------------- session manager
\* The part of the manager's state the scheduler writes: the session table,
\* the pending timers and the events emitted so far.
Mgr == [sessions |-> sessions, timers |-> timers, emitted |-> emitted]

has(s) == sessions[s].status # "none"

getSession(s) == sessions[s]

getAllSessions == {s \in SessionIds : has(s)}

getSessionByChatId(chatId) ==
  {s \in SessionIds : sessions[s].chatId = chatId /\ sessions[s].status = "active"}

getActiveSessionsCount == Cardinality({s \in SessionIds : sessions[s].status = "active"})

\* The guard at the top of onTick, scheduleNextPreClose and emitPreCloseSignal.
isLive(session) == session.status = "active"

\* The dedup test left out: every attempt looks like the first.
notYetSignalledAlways(session, formingTimestamp) == TRUE

\* The dedup test of scheduleNextPreClose (lines 122 and 136).
notYetSignalled(session, formingTimestamp) ==
  session.lastSignalCandleTimestamp # formingTimestamp

\* clearTimeout(handle)
clearTimeout(ts, handle) == ts \ {handle}

\* if (session.preCloseTimer) clearTimeout(session.preCloseTimer), followed
\* by session.preCloseTimer = setTimeout(...).
setPreCloseTimer(m, s, t) ==
  [m EXCEPT !.timers = clearTimeout(@, m.sessions[s].preCloseTimer) \cup {t},
            !.sessions[s].preCloseTimer = t]

\* The signal generateSignal returns, as far as the scheduler decides it.
signalOf(s, session, candleCloseTime) ==
  [id |-> s, candleCloseTime |-> candleCloseTime, at |-> now,
   formingCandle |-> getFormingCandle(session.timeframe)]

emitPreCloseSignal(m, s, candleCloseTime) ==
  LET session == m.sessions[s] IN
  IF ~isLive(session) THEN m
  ELSE [m EXCEPT !.sessions[s].lastSignalAt = now,
                 !.emitted = Append(@, signalOf(s, session, candleCloseTime))]

\* if (lastSignalCandleTimestamp !== ts) { emit; lastSignalCandleTimestamp = ts }
emitOnce(m, s, formingTimestamp, candleCloseTime) ==
  IF notYetSignalled(m.sessions[s], formingTimestamp)
    THEN [emitPreCloseSignal(m, s, candleCloseTime)
            EXCEPT !.sessions[s].lastSignalCandleTimestamp = formingTimestamp]
    ELSE m

\* The delay, in seconds, of the timer armed after a late arm.
nextDelay(candleCloseTime, timeframe) ==
  Max(minNextDelaySeconds, (candleCloseTime + timeframe - preCloseSeconds) - now)

scheduleNextPreClose(m, s) ==
  LET session == m.sessions[s]
      forming == getFormingCandle(session.timeframe)
      candleCloseTime == getCandleCloseTime(forming, session.timeframe)
      preCloseTime == candleCloseTime - preCloseSeconds
  IN
  IF ~isLive(session) THEN m
  ELSE IF forming = None
    THEN setPreCloseTimer(m, s, [id |-> s, kind |-> "poll", due |-> now + pollDelaySeconds,
                                 forming |-> None, close |-> 0])
  ELSE IF preCloseTime <= now
    THEN setPreCloseTimer(emitOnce(m, s, forming, candleCloseTime), s,
           [id |-> s, kind |-> "next", due |-> now + nextDelay(candleCloseTime, session.timeframe),
            forming |-> None, close |-> 0])
  ELSE setPreCloseTimer(m, s,
           [id |-> s, kind |-> "deadline", due |-> scheduleAtDue(preCloseTime),
            forming |-> forming, close |-> candleCloseTime])

\* The callback of a pre-close timer that fires: the poll and the late-arm
\* timers call scheduleNextPreClose, the deadline timer runs its closure over
\* the forming candle and the close time captured when it was armed.
timerCallback(m, s, t) ==
  IF t.kind = "deadline"
    THEN scheduleNextPreClose(emitOnce(m, s, t.forming, t.close), s)
  ELSE IF t.kind = "orphanDeadline"
    THEN scheduleNextPreClose(emitPreCloseSignal(m, s, t.close), s)
  ELSE scheduleNextPreClose(m, s)

\* onTick(sessionId, tick) as the tick handler of session s calls it.
onTick(ws, s, epoch) ==
  LET session == sessions[s] IN
  IF ~isLive(session) THEN ws
  ELSE [ws EXCEPT ![session.timeframe] = processTick(@, epoch, session.timeframe)]

RECURSIVE fanOut(_, _, _)
\* derivFeed emits tick:symbol: the registered handlers run in order.
fanOut(ls, ws, epoch) ==
  IF ls = <<>> THEN ws
  ELSE fanOut(Tail(ls), onTick(ws, Head(ls), epoch), epoch)

\* The handler is dropped from tickHandlers and left on the feed.
WithoutNothing(seq, s) == seq

\* derivFeed.off: the listener list without the handler of session s.
Without(seq, s) == SelectSeq(seq, LAMBDA x : x # s)

\* ------------------------------------------------------------ signal engine
\* Numbers.  A weight or a score is a double: finite, +Infinity or NaN.  The
\* finite ones are counted in units of 0.0001: a vote's weight is its raw
\* weight in thousandths times a multiplier in tenths.
Num(v) == [k |-> "fin", v |-> v]

Infinity == [k |-> "inf", v |-> 0]

NaN == [k |-> "nan", v |-> 0]

\* a * b for a finite raw weight a >= 0 and a multiplier b.
times(a, b) ==
  IF b.k = "nan" THEN NaN
  ELSE IF b.k = "inf" THEN (IF a = 0 THEN NaN ELSE Infinity)
  ELSE Num(a * b.v)

\* a + b (no -Infinity arises: raw weights are not negative).
plus(a, b) ==
  IF a.k = "nan" \/ b.k = "nan" THEN NaN
  ELSE IF a.k = "inf" \/ b.k = "inf" THEN Infinity
  ELSE Num(a.v + b.v)

\* A quotient (n + ne*eps) / (d + de*eps), or NaN, where eps is the 1e-9 of
\* calculateScores: 0.00001 of the unit, smaller than any difference of two
\* weights.  pUp is U / (U + D + eps): n = U, d = U + D, de = 1.
Quot(n, ne, d, de) == [nan |-> FALSE, n |-> n, ne |-> ne, d |-> d, de |-> de]

NaNQuot == [nan |-> TRUE, n |-> 0, ne |-> 0, d |-> 1, de |-> 0]

Half == Quot(1, 0, 2, 0)

sgn(a) == IF a > 0 THEN 1 ELSE IF a < 0 THEN 0 - 1 ELSE 0

\* The sign of a + b*eps.
lexSign(a, b) == IF a # 0 THEN sgn(a) ELSE sgn(b)

\* 1 - p
oneMinus(p) ==
  IF p.nan THEN p ELSE Quot(p.d - p.n, p.de - p.ne, p.d, p.de)

\* p > a/b for integers a and b > 0; false for NaN, as in JavaScript.
greater(p, a, b) ==
  /\ ~p.nan
  /\ LET s == lexSign(p.d, p.de) IN
     lexSign((p.n * b - a * p.d) * s, (p.ne * b - a * p.de) * s) = 1

\* p < a/b for integers a and b > 0; false for NaN.
smaller(p, a, b) ==
  /\ ~p.nan
  /\ LET s == lexSign(p.d, p.de) IN
     lexSign((p.n * b - a * p.d) * s, (p.ne * b - a * p.de) * s) = 0 - 1

\* Math.max(p, 1 - p): p when p > 1/2, 1 - p otherwise.
maxWithComplement(p) ==
  IF p.nan THEN NaNQuot
  ELSE IF greater(p, 1, 2) THEN p ELSE oneMinus(p)

\* Math.round(p * 100) = floor(100 p + 1/2): the largest integer q with
\* q * (D + De*eps) <= N + Ne*eps, where (N + Ne*eps) / (D + De*eps) is
\* 100 p + 1/2 written with a positive denominator.  The result is a double:
\* an integer or NaN.
mathRound100(p) ==
  IF p.nan THEN NaN
  ELSE LET s  == lexSign(p.d, p.de)
           N  == (200 * p.n + p.d) * s
           Ne == (200 * p.ne + p.de) * s
           D  == 2 * p.d * s
           De == 2 * p.de * s
           q0 == IF D > 0 THEN N \div D ELSE 0
       IN
       IF D > 0
         THEN IF lexSign(N - q0 * D, Ne - q0 * De) >= 0 THEN Num(q0)
                                                         ELSE Num(q0 - 1)
       ELSE IF N = 0 THEN Num(Ne \div De)
       ELSE Num((N * 100000) \div De)

\* a < b for a double a and an integer b; false for NaN.
lessThan(a, b) == a.k = "fin" /\ a.v < b

\* config/indicators.ts
minCandlesForSignal == 50
minConfidence == 60

\* DEFAULT_INDICATOR_WEIGHTS: name -> weight in tenths (all are enabled).
DEFAULT_INDICATOR_WEIGHTS ==
  [ema_cross_5_21 |-> 12, ema_cross_9_21 |-> 11, ema_cross_12_50 |-> 13,
   sma_trend_20 |-> 8, sma_trend_50 |-> 9, sma_trend_200 |-> 10,
   macd_signal |-> 14, macd_histogram |-> 12, rsi_overbought |-> 13,
   rsi_oversold |-> 13, rsi_divergence |-> 15, stochastic_cross |-> 11,
   stochastic_extreme |-> 10, adx_trend_strength |-> 9, cci_signal |-> 8,
   williams_r |-> 7, bollinger_squeeze |-> 12, bollinger_breakout |-> 14,
   keltner_breakout |-> 11, hull_ma_trend |-> 10, supertrend_signal |-> 15,
   roc_momentum |-> 8, momentum_signal |-> 7, donchian_breakout |-> 11,
   psar_signal |-> 12, ultimate_osc |-> 9, mean_reversion |-> 10,
   lin_reg_slope |-> 8, fisher_transform |-> 9, engulfing_pattern |-> 15,
   hammer_pattern |-> 13, shooting_star |-> 13, doji_pattern |-> 8,
   wick_rejection |-> 11, order_block |-> 14, fvg_signal |-> 12]

\* getIndicatorWeight that takes a custom multiplier of 0 for a missing one.
getIndicatorWeightTruthy(name, customWeights) ==
  IF name \in DOMAIN customWeights /\ customWeights[name] # [k |-> "fin", v |-> 0]
    THEN customWeights[name]
  ELSE IF name \in DOMAIN DEFAULT_INDICATOR_WEIGHTS
    THEN [k |-> "fin", v |-> DEFAULT_INDICATOR_WEIGHTS[name]]
  ELSE [k |-> "fin", v |-> 10]

\* getIndicatorWeight(name, customWeights): customWeights is a function from
\* the names it has an entry for to their multipliers.
getIndicatorWeight(name, customWeights) ==
  IF name \in DOMAIN customWeights THEN customWeights[name]
  ELSE IF name \in DOMAIN DEFAULT_INDICATOR_WEIGHTS
         /\ DEFAULT_INDICATOR_WEIGHTS[name] # 0
    THEN Num(DEFAULT_INDICATOR_WEIGHTS[name])
  ELSE Num(10)

\* isIndicatorEnabled that lets every name through.
isIndicatorEnabledAlways(name, enabledIndicators) == TRUE

\* isIndicatorEnabled(name, enabledIndicators): the list is given or not; an
\* empty list is a given list.
isIndicatorEnabled(name, enabledIndicators) ==
  IF ~enabledIndicators.given THEN TRUE
  ELSE name \in enabledIndicators.names

\* A vote; its weight is raw, in thousandths, until addVote multiplies it.
Vote(indicator, direction, weight) ==
  [indicator |-> indicator, direction |-> direction, weight |-> weight]

\* voteFromEMACross(indicators, "ema5", "ema21", lastClose, name): a
\* sequence of no vote (null) or one.
voteFromEMACross(fast, slow, lastClose, name) ==
  IF fast = None \/ slow = None THEN <<>>
  ELSE IF fast > slow /\ lastClose > fast THEN <<Vote(name, "UP", 1000)>>
  ELSE IF fast < slow /\ lastClose < fast THEN <<Vote(name, "DOWN", 1000)>>
  ELSE <<Vote(name, "NEUTRAL", 300)>>

voteFromRSI(indicators) ==
  LET rsi == indicators.rsi14 IN
  IF rsi = None THEN <<>>
  ELSE IF rsi < 30 THEN <<Vote("rsi_oversold", "UP", 1000)>>
  ELSE IF rsi > 70 THEN <<Vote("rsi_overbought", "DOWN", 1000)>>
  ELSE IF rsi > 50 THEN <<Vote("rsi_trend", "UP", 500)>>
  ELSE <<Vote("rsi_trend", "DOWN", 500)>>

voteFromADX(indicators) ==
  LET adx == indicators.adx IN
  IF adx = None THEN <<>>
  ELSE IF adx < 25 THEN <<Vote("adx_trend_strength", "NEUTRAL", 500)>>
  ELSE <<Vote("adx_trend_strength", "NEUTRAL", 1000)>>

\* name.toLowerCase().replace(/\s+/g, "_") for the pattern names followed.
lowerCased(name) ==
  CASE name = "Hammer" -> "hammer"
    [] name = "Doji" -> "doji"
    [] name = "Shooting Star" -> "shooting_star"
    [] name = "Bullish Engulfing" -> "bullish_engulfing"
    [] name = "Bearish Engulfing" -> "bearish_engulfing"
    [] OTHER -> "morning_star"

\* name.includes(word) for the pattern names followed.
includes(name, word) ==
  \/ word = "Hammer" /\ name = "Hammer"
  \/ word = "Shooting" /\ name = "Shooting Star"
  \/ word = "Engulfing" /\ name \in {"Bullish Engulfing", "Bearish Engulfing"}

\* The vote of one candlestick pattern; strengths and ratios are in
\* hundredths.  The later assignment to vote.indicator wins.
voteFromPattern(pattern) ==
  IF pattern.type = "bullish"
    THEN Vote(IF includes(pattern.name, "Hammer") THEN "hammer_pattern"
              ELSE IF includes(pattern.name, "Engulfing") THEN "engulfing_pattern"
              ELSE lowerCased(pattern.name),
              "UP", pattern.strength * 10)
  ELSE IF pattern.type = "bearish"
    THEN Vote(IF includes(pattern.name, "Shooting") THEN "shooting_star"
              ELSE IF includes(pattern.name, "Engulfing") THEN "engulfing_pattern"
              ELSE lowerCased(pattern.name),
              "DOWN", pattern.strength * 10)
  ELSE Vote("doji_pattern", "NEUTRAL", pattern.strength * 5)

RECURSIVE votesFromPatterns(_)
votesFromPatterns(patterns) ==
  IF patterns = <<>> THEN <<>>
  ELSE <<voteFromPattern(Head(patterns))>> \o votesFromPatterns(Tail(patterns))

voteFromPsychology(psychology) ==
  votesFromPatterns(psychology.patterns)
  \o (IF psychology.orderBlockProbability > 60
        THEN <<Vote("order_block",
                    IF psychology.bias = "bullish" THEN "UP"
                    ELSE IF psychology.bias = "bearish" THEN "DOWN" ELSE "NEUTRAL",
                    psychology.orderBlockProbability * 10)>>
        ELSE <<>>)
  \o (IF psychology.fvgDetected
        THEN <<Vote("fvg_signal",
                    IF psychology.bias = "bullish" THEN "UP" ELSE "DOWN", 800)>>
        ELSE <<>>)
  \o (IF psychology.upperWickRatio > 60
        THEN <<Vote("wick_rejection", "DOWN", psychology.upperWickRatio * 10)>>
        ELSE <<>>)
  \o (IF psychology.lowerWickRatio > 60
        THEN <<Vote("wick_rejection", "UP", psychology.lowerWickRatio * 10)>>
        ELSE <<>>)

RECURSIVE addVotes(_, _)
\* addVote and addVotes of collectVotes: the votes of enabled indicators,
\* each weight multiplied by getIndicatorWeight.
addVotes(voteList, options) ==
  IF voteList = <<>> THEN <<>>
  ELSE LET vote == Head(voteList)
           name == vote.indicator
       IN
       (IF isIndicatorEnabled(name, options.enabledIndicators)
          THEN <<[vote EXCEPT !.weight =
                    times(@, getIndicatorWeight(name, options.customWeights))]>>
          ELSE <<>>)
       \o addVotes(Tail(voteList), options)

\* collectVotes for indicator records in which the fields ema5, ema21, rsi14
\* and adx may be present: the voters of absent fields return no vote.
collectVotes(indicators, psychology, lastClose, options) ==
  addVotes(voteFromEMACross(indicators.ema5, indicators.ema21, lastClose,
                            "ema_cross_5_21")
           \o voteFromRSI(indicators)
           \o voteFromADX(indicators)
           \o voteFromPsychology(psychology), options)

RECURSIVE sumOfCountingNeutral(_, _)
\* The sum that adds the weight of a NEUTRAL vote to every direction.
sumOfCountingNeutral(votes, direction) ==
  IF votes = <<>> THEN Num(0)
  ELSE LET rest == sumOfCountingNeutral(Tail(votes), direction) IN
       IF Head(votes).direction \in {direction, "NEUTRAL"}
         THEN plus(Head(votes).weight, rest)
         ELSE rest

RECURSIVE sumOf(_, _)
\* The sum of the weights of the votes of one direction.
sumOf(votes, direction) ==
  IF votes = <<>> THEN Num(0)
  ELSE LET rest == sumOf(Tail(votes), direction) IN
       IF Head(votes).direction = direction THEN plus(Head(votes).weight, rest)
                                            ELSE rest

\* finalUp / (finalUp + finalDown + 1e-9)
divide(finalUp, finalDown) ==
  LET total == plus(finalUp, finalDown) IN
  IF finalUp.k = "nan" \/ total.k = "nan" THEN NaNQuot
  ELSE IF finalUp.k = "inf" THEN NaNQuot
  ELSE IF total.k = "inf" THEN Quot(0, 0, 1, 0)
  ELSE Quot(finalUp.v, 0, total.v, 1)

calculateScores(votes) ==
  LET finalUp == sumOf(votes, "UP")
      finalDown == sumOf(votes, "DOWN")
  IN [finalUp |-> finalUp, finalDown |-> finalDown,
      pUp |-> divide(finalUp, finalDown)]

\* determineDirection without the confidence gate.
determineDirectionUngated(pUp, confidence) ==
  IF greater(pUp, 1, 2) THEN "CALL" ELSE "PUT"

determineDirection(pUp, confidence) ==
  IF lessThan(confidence, minConfidence) THEN "NO_TRADE"
  ELSE IF greater(pUp, 1, 2) THEN "CALL" ELSE "PUT"

NoIndicators == [ema5 |-> None, ema21 |-> None, rsi14 |-> None, adx |-> None]

NoPsychology ==
  [bodyRatio |-> 0, upperWickRatio |-> 0, lowerWickRatio |-> 0, isDoji |-> FALSE,
   patterns |-> <<>>, bias |-> "neutral", orderBlockProbability |-> 0,
   fvgDetected |-> FALSE]

\* The gate of generateSignal that never finds too few candles.
tooFewCandlesNever(closedCandlesCount) == FALSE

\* closedCandles.length < VOLATILITY_CONFIG.minCandlesForSignal
tooFewCandles(closedCandlesCount) == closedCandlesCount < minCandlesForSignal

\* The return of generateSignal for too few candles.
insufficientResult(closedCandlesCount) ==
  [timestamp |-> now,
   direction |-> "NO_TRADE", confidence |-> Num(0), pUp |-> Half, pDown |-> Half,
   votes |-> <<>>, indicators |-> NoIndicators, psychology |-> NoPsychology,
   volatilityOverride |-> FALSE, volatilityReason |-> "",
   closedCandlesCount |-> closedCandlesCount, predicted |-> FALSE]

\* The volatility return with the direction and confidence of an empty vote.
volatilityResultScored(prediction, closedCandlesCount) ==
  [timestamp |-> now,
   direction |-> "PUT", confidence |-> Num(100), pUp |-> Half, pDown |-> Half,
   votes |-> <<>>, indicators |-> prediction.indicators,
   psychology |-> prediction.psychology, volatilityOverride |-> TRUE,
   volatilityReason |-> prediction.volatility.reason,
   closedCandlesCount |-> closedCandlesCount, predicted |-> TRUE]

\* The return of generateSignal when the prediction reports volatility.
volatilityResult(prediction, closedCandlesCount) ==
  [timestamp |-> now,
   direction |-> "NO_TRADE", confidence |-> Num(0), pUp |-> Half, pDown |-> Half,
   votes |-> <<>>, indicators |-> prediction.indicators,
   psychology |-> prediction.psychology, volatilityOverride |-> TRUE,
   volatilityReason |-> prediction.volatility.reason,
   closedCandlesCount |-> closedCandlesCount, predicted |-> TRUE]

\* The scored return of generateSignal.
scoredResult(prediction, closedCandlesCount, options) ==
  LET lastClose == prediction.estimatedClose
      votes == collectVotes(prediction.indicators, prediction.psychology,
                            lastClose, options)
      pUp == calculateScores(votes).pUp
      confidence == mathRound100(maxWithComplement(pUp))
  IN [timestamp |-> now,
      direction |-> determineDirection(pUp, confidence), confidence |-> confidence,
      pUp |-> pUp, pDown |-> oneMinus(pUp), votes |-> votes,
      indicators |-> prediction.indicators, psychology |-> prediction.psychology,
      volatilityOverride |-> FALSE, volatilityReason |-> "",
      closedCandlesCount |-> closedCandlesCount, predicted |-> TRUE]

\* generateSignal: prediction is what predictWithFormingCandle returns for
\* the candles; predicted records whether it was called.  timestamp is
\* Math.floor(Date.now() / 1000), the clock in whole seconds.
generateSignal(closedCandlesCount, prediction, options) ==
  IF tooFewCandles(closedCandlesCount) THEN insufficientResult(closedCandlesCount)
  ELSE IF prediction.volatility.isVolatile
    THEN volatilityResult(prediction, closedCandlesCount)
  ELSE scoredResult(prediction, closedCandlesCount, options)

\* ------------------------------------------------- signal engine: inputs
\* Candlestick patterns the psychology analysis may report.
PatternInputs ==
  {<<>>,
   <<[name |-> "Hammer", type |-> "bullish", strength |-> 80]>>,
   <<[name |-> "Morning Star", type |-> "bullish", strength |-> 90]>>,
   <<[name |-> "Doji", type |-> "neutral", strength |-> 50]>>}

\* What predictWithFormingCandle may return: prices and indicator values are
\* small integers, ratios, strengths and probabilities are in hundredths.
PredictionInputs ==
  [estimatedClose : {8, 12},
   indicators : [ema5 : {None, 9, 11}, ema21 : {10},
                 rsi14 : {None, 25, 45, 60, 75}, adx : {None, 20}],
   psychology : [bodyRatio : {50}, upperWickRatio : {0, 70},
                 lowerWickRatio : {0, 70}, isDoji : {FALSE},
                 patterns : PatternInputs, bias : {"bullish"},
                 orderBlockProbability : {0, 70}, fvgDetected : {FALSE}],
   volatility : [isVolatile : BOOLEAN, reason : {"ATR above threshold"}]]

\* SessionOptions: enabledIndicators absent, empty or a short list;
\* customWeights absent or one entry: negative, zero, Infinity (the JSON
\* number 1e999) or larger than the default.
OptionInputs ==
  [enabledIndicators :
     {[given |-> FALSE, names |-> {}], [given |-> TRUE, names |-> {}],
      [given |-> TRUE, names |-> {"rsi_trend", "adx_trend_strength"}]},
   customWeights :
     {<<>>, [n \in {"rsi_trend"} |-> Num(0 - 10)],
      [n \in {"ema_cross_5_21"} |-> Num(0)],
      [n \in {"ema_cross_5_21"} |-> Infinity],
      [n \in {"wick_rejection"} |-> Num(25)]}]

\* closedCandles.length
CandleCountInputs == {10, 49, 50}

\* No generateSignal call is followed.
NoCall ==
  [given |-> FALSE, returned |-> FALSE, closedCandlesCount |-> 0,
   prediction |-> <<>>, options |-> <<>>, result |-> <<>>, earlier |-> <<>>]

\* -------------------------------------------------------------------- Init
\* The session manager, the feed and the aggregator after construction.
InitManager ==
  /\ now = StartTime
  /\ timers = {}
  /\ sessions = [s \in SessionIds |-> NoSession]
  /\ tickHandlers = {}
  /\ listeners = <<>>
  /\ windows = [tf \in TimeframeInputs |-> NoWindow]
  /\ connected = TRUE
  /\ refCount = 0
  /\ startCall = [s \in SessionIds |-> IdleCall]
  /\ stopPending = [s \in SessionIds |-> 0]
  /\ restartCall = [s \in SessionIds |-> [fetch |-> 0, subscribe |-> 0]]
  /\ emitted = <<>>
  /\ outcome = [s \in SessionIds |-> "none"]
  /\ started = [s \in SessionIds |-> 0]
  /\ stoppedEv = [s \in SessionIds |-> 0]
  /\ unsubCalls = [s \in SessionIds |-> 0]
  /\ subCalls = [s \in SessionIds |-> 0]
  /\ stopCalled = [s \in SessionIds |-> FALSE]
  /\ requests = 0
  /\ storage = NoStorage
  /\ lastTick = None
  /\ secondCall = [s \in SessionIds |-> IdleCall]
  /\ ticks = NoTicks
  /\ debug = NoDebug

Init ==
  /\ InitManager
  /\ call = NoCall
  /\ mem = NoMem

\* ------------------------------------------------------------ startSession
\* POST /api/startSession checks that the fields are present and that the
\* asset is known; handleStartSession checks the asset.  Neither looks at the
\* timeframe.
entryAccepts(via, timeframe) == via \in EntryPoints

\* startSession without its conflict check.
conflictsNever(s) == FALSE

\* The conflict check at the top of startSession.
conflicts(s) == has(s)

newSession(chatId, timeframe) ==
  [status |-> "active", chatId |-> chatId, timeframe |-> timeframe,
   lastSignalAt |-> None, lastSignalCandleTimestamp |-> None,
   preCloseTimer |-> NoTimer]

\* startSession with an id that is in the table: throws.
StartSessionConflict(s) ==
  /\ startCall[s].stage = "idle"
  /\ requests < MaxRequests
  /\ conflicts(s)
  /\ requests' = requests + 1
  /\ outcome' = [outcome EXCEPT ![s] = "conflict"]
  /\ UNCHANGED <<now, sessions, timers, tickHandlers, listeners, windows,
                 connected, refCount, startCall, stopPending, restartCall,
                 emitted, started, stoppedEv, unsubCalls, subCalls,
                 stopCalled, call, storage, lastTick, secondCall, ticks,
                 debug, mem>>

\* startSession up to its first await: the history request is sent.  What
\* the caller does with the storage is the caller's.
startSessionEntered(s, chatId, timeframe, via) ==
  /\ startCall[s].stage = "idle"
  /\ requests < MaxRequests
  /\ entryAccepts(via, timeframe)
  /\ ~conflicts(s)
  /\ startCall' = [startCall EXCEPT ![s] =
                     [stage |-> "fetch", timeframe |-> timeframe, chatId |-> chatId]]
  /\ requests' = requests + 1
  /\ outcome' = [outcome EXCEPT ![s] = "pending"]
  /\ UNCHANGED <<now, sessions, timers, tickHandlers, listeners, windows,
                 connected, refCount, stopPending, restartCall, emitted,
                 started, stoppedEv, unsubCalls, subCalls, stopCalled, call,
                 lastTick, secondCall, ticks, debug, mem>>

StartSessionCall(s, chatId, timeframe, via) ==
  /\ startSessionEntered(s, chatId, timeframe, via)
  /\ UNCHANGED storage

\* The timer of a session object that sessions.set replaces stays pending:
\* nothing clears it, and it is no longer the preCloseTimer of the session in
\* the table.  Its deadline closure tests the lastSignalCandleTimestamp of
\* the replaced object, which nobody else writes.
orphaned(ts, session) ==
  LET t == session.preCloseTimer IN
  IF t \notin ts THEN ts
  ELSE (ts \ {t}) \cup
       {[t EXCEPT !.kind =
           IF t.kind = "deadline" /\ session.lastSignalCandleTimestamp # t.forming
             THEN "orphanDeadline" ELSE "orphan"]}

\* The history arrives for the startSession call c: lines 58-81, up to the
\* await of subscribeTicks, the call of subscribeTicks included.
startSessionFetched(s, c) ==
  /\ c.stage = "fetch"
  /\ connected
  /\ windows' = initialize(windows, c.timeframe,
                           fetchCandleHistory(c.timeframe, historyCandles),
                           windowCapacity)
  /\ sessions' = [sessions EXCEPT ![s] = newSession(c.chatId, c.timeframe)]
  /\ timers' = orphaned(timers, sessions[s])
  /\ tickHandlers' = tickHandlers \cup {s}
  /\ listeners' = Append(listeners, s)
  /\ subCalls' = [subCalls EXCEPT ![s] = @ + 1]
  /\ UNCHANGED <<now, connected, refCount, stopPending, restartCall, emitted,
                 outcome, started, stoppedEv, unsubCalls, stopCalled,
                 requests, call, storage, lastTick, ticks, debug, mem>>

StartSessionFetched(s) ==
  /\ startSessionFetched(s, startCall[s])
  /\ startCall' = [startCall EXCEPT ![s].stage = "subscribe"]
  /\ UNCHANGED secondCall

\* fetchCandleHistory or subscribeTicks rejects: the startSession call c
\* throws at the await it is at.
startSessionFailed(s, c, stage) ==
  /\ c.stage = stage
  /\ outcome' = [outcome EXCEPT ![s] = "failed"]
  /\ UNCHANGED <<now, sessions, timers, tickHandlers, listeners, windows,
                 connected, refCount, stopPending, restartCall, emitted,
                 started, stoppedEv, unsubCalls, subCalls, stopCalled,
                 requests, call, storage, lastTick, ticks, debug, mem>>

StartSessionFailed(s, stage) ==
  /\ startSessionFailed(s, startCall[s], stage)
  /\ startCall' = [startCall EXCEPT ![s] = IdleCall]
  /\ UNCHANGED secondCall

\* subscribeTicks resolves for the startSession call c: lines 83-88.
startSessionSubscribed(s, c) ==
  LET m == scheduleNextPreClose(Mgr, s) IN
  /\ c.stage = "subscribe"
  /\ connected
  /\ refCount' = refCount + 1
  /\ sessions' = m.sessions
  /\ timers' = m.timers
  /\ emitted' = m.emitted
  /\ started' = [started EXCEPT ![s] = @ + 1]
  /\ outcome' = [outcome EXCEPT ![s] = "started"]
  /\ UNCHANGED <<now, tickHandlers, listeners, windows, connected,
                 stopPending, restartCall, stoppedEv, unsubCalls, subCalls,
                 stopCalled, requests, call, storage, lastTick, ticks, debug,
                 mem>>

StartSessionSubscribed(s) ==
  /\ startSessionSubscribed(s, startCall[s])
  /\ startCall' = [startCall EXCEPT ![s] = IdleCall]
  /\ UNCHANGED secondCall

\* ------------------------------------------------------------- stopSession
\* stopSession up to its await of unsubscribeTicks (or its early return).
\* What the caller does with the storage is the caller's.
stopSessionEntered(s) ==
  /\ requests < MaxRequests
  /\ requests' = requests + 1
  /\ stopCalled' = [stopCalled EXCEPT ![s] = TRUE]
  /\ IF ~has(s)
       THEN UNCHANGED <<sessions, timers, tickHandlers, listeners, unsubCalls,
                        stopPending>>
       ELSE /\ sessions' = [sessions EXCEPT ![s].status = "stopped",
                                            ![s].preCloseTimer = NoTimer]
            /\ timers' = clearTimeout(timers, sessions[s].preCloseTimer)
            /\ tickHandlers' = tickHandlers \ {s}
            /\ listeners' = IF s \in tickHandlers THEN Without(listeners, s)
                                                  ELSE listeners
            /\ unsubCalls' = [unsubCalls EXCEPT ![s] = @ + 1]
            /\ stopPending' = [stopPending EXCEPT ![s] = @ + 1]
  /\ UNCHANGED <<now, windows, connected, refCount, startCall, restartCall,
                 emitted, outcome, started, stoppedEv, subCalls, call,
                 lastTick, secondCall, ticks, debug, mem>>

StopSessionCall(s) ==
  /\ stopSessionEntered(s)
  /\ UNCHANGED storage

\* unsubscribeTicks resolves: lines 194-197.
StopSessionUnsubscribed(s) ==
  /\ stopPending[s] > 0
  /\ stopPending' = [stopPending EXCEPT ![s] = @ - 1]
  /\ refCount' = Max(0, refCount - 1)
  /\ windows' = cleanupWindow(windows, sessions[s].timeframe)
  /\ stoppedEv' = [stoppedEv EXCEPT ![s] = @ + 1]
  /\ UNCHANGED <<now, sessions, timers, tickHandlers, listeners, connected,
                 startCall, restartCall, emitted, outcome, started,
                 unsubCalls, subCalls, stopCalled, requests, call, storage,
                 lastTick, secondCall, ticks, debug, mem>>

\* ---------------------------------------------------------- restartSession
\* The feed emits connected: restartSession is called for every active
\* session and runs up to its await of fetchCandleHistory.
FeedConnected ==
  /\ ~connected
  /\ connected' = TRUE
  /\ restartCall' = [s \in SessionIds |->
                       IF sessions[s].status = "active"
                         THEN [restartCall[s] EXCEPT !.fetch = @ + 1]
                         ELSE restartCall[s]]
  /\ UNCHANGED <<now, sessions, timers, tickHandlers, listeners, windows,
                 refCount, startCall, stopPending, emitted, outcome, started,
                 stoppedEv, unsubCalls, subCalls, stopCalled, requests, call,
                 storage, lastTick, secondCall, ticks, debug, mem>>

\* The feed loses its connection and emits disconnected.
FeedDisconnected ==
  /\ connected
  /\ requests < MaxRequests
  /\ connected' = FALSE
  /\ requests' = requests + 1
  /\ UNCHANGED <<now, sessions, timers, tickHandlers, listeners, windows,
                 refCount, startCall, stopPending, restartCall, emitted,
                 outcome, started, stoppedEv, unsubCalls, subCalls,
                 stopCalled, call, storage, lastTick, secondCall, ticks,
                 debug, mem>>

\* restartSession that leaves the aggregator window as it is.
RestartFetchedUnseeded(s) ==
  /\ restartCall[s].fetch > 0
  /\ connected
  /\ restartCall' = [restartCall EXCEPT ![s].fetch = @ - 1, ![s].subscribe = @ + 1]
  /\ subCalls' = [subCalls EXCEPT ![s] = @ + 1]
  /\ UNCHANGED <<now, sessions, timers, tickHandlers, listeners, windows,
                 connected, refCount, startCall, stopPending, emitted,
                 outcome, started, stoppedEv, unsubCalls, stopCalled,
                 requests, call, storage, lastTick, secondCall, ticks, debug,
                 mem>>

\* The history of a restart arrives: lines 212-214, the call of
\* subscribeTicks included.
RestartFetched(s) ==
  /\ restartCall[s].fetch > 0
  /\ connected
  /\ windows' = initialize(windows, sessions[s].timeframe,
                           fetchCandleHistory(sessions[s].timeframe, historyCandles),
                           windowCapacity)
  /\ restartCall' = [restartCall EXCEPT ![s].fetch = @ - 1, ![s].subscribe = @ + 1]
  /\ subCalls' = [subCalls EXCEPT ![s] = @ + 1]
  /\ UNCHANGED <<now, sessions, timers, tickHandlers, listeners, connected,
                 refCount, startCall, stopPending, emitted, outcome, started,
                 stoppedEv, unsubCalls, stopCalled, requests, call, storage,
                 lastTick, secondCall, ticks, debug, mem>>

\* The re-subscription of a restart resolves: line 216.
RestartSubscribed(s) ==
  LET m == scheduleNextPreClose(Mgr, s) IN
  /\ restartCall[s].subscribe > 0
  /\ connected
  /\ refCount' = refCount + 1
  /\ sessions' = m.sessions
  /\ timers' = m.timers
  /\ emitted' = m.emitted
  /\ restartCall' = [restartCall EXCEPT ![s].subscribe = @ - 1]
  /\ UNCHANGED <<now, tickHandlers, listeners, windows, connected, startCall,
                 stopPending, outcome, started, stoppedEv, unsubCalls,
                 subCalls, stopCalled, requests, call, storage, lastTick,
                 secondCall, ticks, debug, mem>>

\* fetchCandleHistory or subscribeTicks of a restart rejects: the restart ends.
RestartFailed(s, stage) ==
  /\ restartCall[s][stage] > 0
  /\ restartCall' = [restartCall EXCEPT ![s][stage] = @ - 1]
  /\ UNCHANGED <<now, sessions, timers, tickHandlers, listeners, windows,
                 connected, refCount, startCall, stopPending, emitted,
                 outcome, started, stoppedEv, unsubCalls, subCalls,
                 stopCalled, requests, call, storage, lastTick, secondCall,
                 ticks, debug, mem>>

\* ------------------------------------------------------- ticks, timers, time
\* The feed delivers a tick of the subscribed symbol, stamped with the
\* current second, to the registered handlers.
Tick ==
  /\ connected
  /\ refCount > 0
  /\ windows' = fanOut(listeners, windows, now)
  /\ UNCHANGED <<now, sessions, timers, tickHandlers, listeners, connected,
                 refCount, startCall, stopPending, restartCall, emitted,
                 outcome, started, stoppedEv, unsubCalls, subCalls,
                 stopCalled, requests, call, storage, lastTick, secondCall,
                 ticks, debug, mem>>

\* A handle whose timer has fired or has been cleared is dead: clearTimeout
\* on it does nothing, so the field holding it is as good as empty.
forget(ss, handle) ==
  [s \in SessionIds |->
     IF ss[s].preCloseTimer = handle THEN [ss[s] EXCEPT !.preCloseTimer = NoTimer]
                                     ELSE ss[s]]

\* A pending timer fires and its callback runs.
TimerFires(t) ==
  LET m == timerCallback([Mgr EXCEPT !.timers = @ \ {t},
                                     !.sessions = forget(@, t)], t.id, t) IN
  /\ t \in timers
  /\ t.due <= now
  /\ sessions' = m.sessions
  /\ timers' = m.timers
  /\ emitted' = m.emitted
  /\ UNCHANGED <<now, tickHandlers, listeners, windows, connected, refCount,
                 startCall, stopPending, restartCall, outcome, started,
                 stoppedEv, unsubCalls, subCalls, stopCalled, requests, call,
                 storage, lastTick, secondCall, ticks, debug, mem>>

\* A timer that is due runs before it is more than MaxLate seconds late.
timersAllow == \A t \in timers : now < t.due + MaxLate

\* Something can still happen for a session: it is active, one of its calls
\* is in flight, or it can still be started.
canAct(s) ==
  \/ sessions[s].status = "active"
  \/ startCall[s].stage # "idle"
  \/ stopPending[s] > 0
  \/ restartCall[s].fetch + restartCall[s].subscribe > 0
  \/ ~has(s) /\ requests < MaxRequests

\* A second passes.  The clock is followed as long as some session can act.
Advance ==
  /\ now < MaxTime
  /\ timersAllow
  /\ \E s \in SessionIds : canAct(s)
  /\ now' = now + 1
  /\ UNCHANGED <<sessions, timers, tickHandlers, listeners, windows,
                 connected, refCount, startCall, stopPending, restartCall,
                 emitted, outcome, started, stoppedEv, unsubCalls, subCalls,
                 stopCalled, requests, call, storage, lastTick, secondCall,
                 ticks, debug, mem>>

\* --------------------------------------------------------------------- Next
Next ==
  \/ \E s \in SoloIds, c \in ChatIds, tf \in TimeframeInputs, via \in EntryPoints :
       StartSessionCall(s, c, tf, via)
  \/ \E s \in SoloIds : StartSessionConflict(s)
  \/ \E s \in SoloIds : StartSessionFetched(s)
  \/ \E s \in SoloIds, stage \in {"fetch", "subscribe"} : StartSessionFailed(s, stage)
  \/ \E s \in SoloIds : StartSessionSubscribed(s)
  \/ \E s \in SoloIds : StopSessionCall(s)
  \/ \E s \in SoloIds : StopSessionUnsubscribed(s)
  \/ FeedDisconnected
  \/ FeedConnected
  \/ \E s \in SoloIds : RestartFetched(s)
  \/ \E s \in SoloIds : RestartSubscribed(s)
  \/ \E s \in SoloIds, stage \in {"fetch", "subscribe"} : RestartFailed(s, stage)
  \/ Tick
  \/ \E t \in timers : TimerFires(t)
  \/ Advance

Spec == Init /\ [][Next]_vars

\* ------------------------------------------------- two sessions, one symbol
\* Two sessions of the same symbol and timeframe share the aggregator window
\* and the feed subscription.  The feed stays connected and nobody stops a
\* session; timers fire when due, awaited calls end, and time passes.
PairTimeframes == {60}

\* Each of the two sessions is started once, in the first seconds.
PairStart(s, chatId, timeframe, via) ==
  /\ outcome[s] = "none"
  /\ now <= StartTime + PairCallWindow
  /\ StartSessionCall(s, chatId, timeframe, via)

\* The feed answers within those seconds: the clock passes them only when no
\* startSession is awaiting an answer.
PairAdvance ==
  /\ \/ now < StartTime + PairCallWindow
     \/ \A s \in SessionIds : startCall[s].stage = "idle"
  /\ Advance

PairNext ==
  \/ \E s \in SessionIds, c \in ChatIds, tf \in PairTimeframes, via \in EntryPoints :
       PairStart(s, c, tf, via)
  \/ \E s \in SessionIds : StartSessionFetched(s)
  \/ \E s \in SessionIds, stage \in {"fetch", "subscribe"} : StartSessionFailed(s, stage)
  \/ \E s \in SessionIds : StartSessionSubscribed(s)
  \/ Tick
  \/ \E t \in timers : TimerFires(t)
  \/ PairAdvance

PairFairness ==
  /\ WF_vars(\E t \in timers : TimerFires(t))
  /\ WF_vars(\E s \in SessionIds :
               StartSessionSubscribed(s) \/ StartSessionFailed(s, "subscribe"))
  /\ WF_vars(PairAdvance)

PairSpec == Init /\ [][PairNext]_vars /\ PairFairness

\* ------------------------------------------------- one session, reconnects
\* One session of timeframe 60 is started in the first seconds and stays;
\* the feed goes down and comes back.  startSession is answered within those first seconds; the
\* history request of a restart is answered whenever the feed is up (the feed
\* comes back if it is down), its subscribeTicks resolves or rejects, ticks
\* arrive while the feed is up, timers fire when due and time passes.
ReconnectStart(s, chatId, timeframe, via) ==
  /\ outcome[s] = "none"
  /\ now <= StartTime + PairCallWindow
  /\ StartSessionCall(s, chatId, timeframe, via)

\* The feed goes down, MaxReconnects times at most.
ReconnectDisconnected ==
  /\ requests <= MaxReconnects
  /\ FeedDisconnected

ReconnectNext ==
  \/ \E s \in SoloIds, c \in ChatIds, tf \in PairTimeframes, via \in EntryPoints :
       ReconnectStart(s, c, tf, via)
  \/ \E s \in SoloIds : StartSessionFetched(s)
  \/ \E s \in SoloIds : StartSessionSubscribed(s)
  \/ ReconnectDisconnected
  \/ FeedConnected
  \/ \E s \in SoloIds : RestartFetched(s)
  \/ \E s \in SoloIds : RestartSubscribed(s)
  \/ \E s \in SoloIds : RestartFailed(s, "subscribe")
  \/ Tick
  \/ \E t \in timers : TimerFires(t)
  \/ PairAdvance

ReconnectFairness ==
  /\ WF_vars(\E t \in timers : TimerFires(t))
  /\ WF_vars(\E s \in SoloIds : StartSessionFetched(s))
  /\ WF_vars(\E s \in SoloIds : StartSessionSubscribed(s))
  /\ WF_vars(FeedConnected)
  /\ WF_vars(\E s \in SoloIds : RestartFetched(s))
  /\ WF_vars(\E s \in SoloIds : RestartSubscribed(s) \/ RestartFailed(s, "subscribe"))
  /\ WF_vars(Tick)
  /\ WF_vars(PairAdvance)

ReconnectSpec == Init /\ [][ReconnectNext]_vars /\ ReconnectFairness

\* --------------------------------------------------- the signal engine alone
\* generateSignal is a pure function: one call with arguments drawn from the
\* input sets.
EngineInit ==
  /\ InitManager
  /\ mem = NoMem
  /\ call \in [given : {TRUE}, returned : {FALSE},
               closedCandlesCount : CandleCountInputs,
               prediction : PredictionInputs, options : OptionInputs,
               result : {<<>>}, earlier : {<<>>}]

\* generateSignal runs and returns.
GenerateSignal ==
  /\ call.given
  /\ ~call.returned
  /\ call' = [call EXCEPT
                !.result = generateSignal(call.closedCandlesCount,
                                          call.prediction, call.options),
                !.returned = TRUE]
  /\ UNCHANGED <<now, sessions, timers, tickHandlers, listeners, windows,
                 connected, refCount, startCall, stopPending, restartCall,
                 emitted, outcome, started, stoppedEv, unsubCalls, subCalls,
                 stopCalled, requests, storage, lastTick, secondCall, ticks,
                 debug, mem>>

EngineNext == GenerateSignal

EngineSpec == EngineInit /\ [][EngineNext]_vars

\* ------------------------------------------ the signal engine, called twice
\* generateSignal is called, time passes, and it is called again with the
\* same arguments (and the same prediction for them); earlier is the result
\* of the first call.
CallGapPasses ==
  /\ call.returned
  /\ call.earlier = <<>>
  /\ now < StartTime + MaxCallGap
  /\ now' = now + 1
  /\ UNCHANGED <<sessions, timers, tickHandlers, listeners, windows,
                 connected, refCount, startCall, stopPending, restartCall,
                 emitted, outcome, started, stoppedEv, unsubCalls, subCalls,
                 stopCalled, requests, call, storage, lastTick, secondCall,
                 ticks, debug, mem>>

GenerateSignalAgain ==
  /\ call.returned
  /\ call.earlier = <<>>
  /\ call' = [call EXCEPT
                !.earlier = call.result,
                !.result = generateSignal(call.closedCandlesCount,
                                          call.prediction, call.options)]
  /\ UNCHANGED <<now, sessions, timers, tickHandlers, listeners, windows,
                 connected, refCount, startCall, stopPending, restartCall,
                 emitted, outcome, started, stoppedEv, unsubCalls, subCalls,
                 stopCalled, requests, storage, lastTick, secondCall, ticks,
                 debug, mem>>

RepeatNext ==
  \/ GenerateSignal
  \/ CallGapPasses
  \/ GenerateSignalAgain

RepeatSpec == EngineInit /\ [][RepeatNext]_vars

\* ------------------------------------------------ entry points and storage
\* The callers of startSession and stopSession: the chat buttons
\* (handleStartSession, handleStopSession), the /stop chat command and the
\* HTTP endpoints.  A storage is present.  storage.handler[s] names the
\* entry points whose handlers are running for session id s.
StopEntryPoints == {"button", "command", "http"}

\* saveSession: INSERT OR REPLACE of the session, its status included.
saveSession(rows, s, session) == [rows EXCEPT ![s] = session.status]

\* updateSessionStatus: UPDATE ... WHERE id = ?, nothing without the row.
updateSessionStatus(rows, s, status) ==
  IF rows[s] = "none" THEN rows ELSE [rows EXCEPT ![s] = status]

\* A start request arrives: the handler calls startSession and awaits it.
HandleStart(s, chatId, timeframe, via) ==
  /\ storage.handler[s].start = ""
  /\ startSessionEntered(s, chatId, timeframe, via)
  /\ storage' = [storage EXCEPT !.handler[s].start = via]

\* startSession has returned or thrown: the rest of the handler.  Only
\* handleStartSession saves the session, and only when startSession returned.
StartHandlerReturns(s) ==
  LET via == storage.handler[s].start IN
  /\ via # ""
  /\ startCall[s].stage = "idle"
  /\ storage' = [storage EXCEPT
                   !.handler[s].start = "",
                   !.rows = IF via = "chat" /\ outcome[s] = "started"
                              THEN saveSession(@, s, sessions[s])
                              ELSE @]
  /\ UNCHANGED <<now, sessions, timers, tickHandlers, listeners, windows,
                 connected, refCount, startCall, stopPending, restartCall,
                 emitted, outcome, started, stoppedEv, unsubCalls, subCalls,
                 stopCalled, requests, call, lastTick, secondCall, ticks,
                 debug, mem>>

\* A stop request arrives: the handler calls stopSession and awaits it.  The
\* /stop command looks the session up by the chat; the Stop Session button
\* carries the id of a session that handleStartSession has put on the keyboard,
\* which it does on its way to saveSession.
HandleStop(s, via) ==
  /\ storage.handler[s].stop = ""
  /\ via = "command" => \E c \in ChatIds : s \in getSessionByChatId(c)
  /\ via = "button" => storage.rows[s] # "none"
  /\ stopSessionEntered(s)
  /\ storage' = [storage EXCEPT !.handler[s].stop = via]

\* stopSession has returned: the rest of the handler.  Only
\* handleStopSession updates the status in the storage.
StopHandlerReturns(s) ==
  LET via == storage.handler[s].stop IN
  /\ via # ""
  /\ stopPending[s] = 0
  /\ storage' = [storage EXCEPT
                   !.handler[s].stop = "",
                   !.rows = IF via = "button"
                              THEN updateSessionStatus(@, s, "stopped")
                              ELSE @]
  /\ UNCHANGED <<now, sessions, timers, tickHandlers, listeners, windows,
                 connected, refCount, startCall, stopPending, restartCall,
                 emitted, outcome, started, stoppedEv, unsubCalls, subCalls,
                 stopCalled, requests, call, lastTick, secondCall, ticks,
                 debug, mem>>

\* The requests arrive in the first seconds.
StorageAdvance ==
  /\ now < StartTime + PairCallWindow
  /\ Advance

StorageNext ==
  \/ \E s \in SoloIds, c \in ChatIds, tf \in PairTimeframes, via \in EntryPoints :
       HandleStart(s, c, tf, via)
  \/ \E s \in SoloIds : StartSessionFetched(s)
  \/ \E s \in SoloIds, stage \in {"fetch", "subscribe"} : StartSessionFailed(s, stage)
  \/ \E s \in SoloIds : StartSessionSubscribed(s)
  \/ \E s \in SoloIds : StartHandlerReturns(s)
  \/ \E s \in SoloIds, via \in StopEntryPoints : HandleStop(s, via)
  \/ \E s \in SoloIds : StopSessionUnsubscribed(s)
  \/ \E s \in SoloIds : StopHandlerReturns(s)
  \/ Tick
  \/ \E t \in timers : TimerFires(t)
  \/ StorageAdvance

StorageSpec == Init /\ [][StorageNext]_vars

\* --------------------------------------------------- ticks that arrive late
\* A tick carries the epoch the provider stamped it with; it is delivered up
\* to MaxTickLag seconds later.  The epochs of the ticks increase strictly.
\* A session is started at any time and stays; the feed goes down and comes
\* back, and restartSession seeds the window again.
LateTick(epoch) ==
  /\ connected
  /\ refCount > 0
  /\ lastTick # None => epoch > lastTick
  /\ windows' = fanOut(listeners, windows, epoch)
  /\ lastTick' = epoch
  /\ UNCHANGED <<now, sessions, timers, tickHandlers, listeners, connected,
                 refCount, startCall, stopPending, restartCall, emitted,
                 outcome, started, stoppedEv, unsubCalls, subCalls,
                 stopCalled, requests, call, storage, secondCall, ticks,
                 debug, mem>>

AggregatorNext ==
  \/ \E s \in SoloIds, c \in ChatIds, tf \in TimeframeInputs, via \in EntryPoints :
       StartSessionCall(s, c, tf, via)
  \/ \E s \in SoloIds : StartSessionFetched(s)
  \/ \E s \in SoloIds : StartSessionSubscribed(s)
  \/ ReconnectDisconnected
  \/ FeedConnected
  \/ \E s \in SoloIds : RestartFetched(s)
  \/ \E s \in SoloIds : RestartSubscribed(s)
  \/ \E epoch \in (now - MaxTickLag)..now : LateTick(epoch)
  \/ \E t \in timers : TimerFires(t)
  \/ Advance

AggregatorSpec == Init /\ [][AggregatorNext]_vars

\* ------------------------------------------- overlapping startSession calls
\* A second startSession with the same id is called while the first awaits
\* the history: the table has no session of that id yet, so the check at the
\* top of startSession lets it pass (lines 50-56).
SecondStartCall(s, chatId, timeframe, via) ==
  /\ startCall[s].stage = "fetch"
  /\ secondCall[s].stage = "idle"
  /\ requests < MaxRequests
  /\ entryAccepts(via, timeframe)
  /\ ~conflicts(s)
  /\ secondCall' = [secondCall EXCEPT ![s] =
                      [stage |-> "fetch", timeframe |-> timeframe, chatId |-> chatId]]
  /\ requests' = requests + 1
  /\ UNCHANGED <<now, sessions, timers, tickHandlers, listeners, windows,
                 connected, refCount, startCall, stopPending, restartCall,
                 emitted, outcome, started, stoppedEv, unsubCalls, subCalls,
                 stopCalled, call, storage, lastTick, ticks, debug, mem>>

SecondFetched(s) ==
  /\ startSessionFetched(s, secondCall[s])
  /\ secondCall' = [secondCall EXCEPT ![s].stage = "subscribe"]
  /\ UNCHANGED startCall

SecondSubscribed(s) ==
  /\ startSessionSubscribed(s, secondCall[s])
  /\ secondCall' = [secondCall EXCEPT ![s] = IdleCall]
  /\ UNCHANGED startCall

\* The feed answers the two calls, within the first seconds.
OverlapAdvance ==
  /\ \/ now < StartTime + PairCallWindow
     \/ \A s \in SessionIds :
          startCall[s].stage = "idle" /\ secondCall[s].stage = "idle"
  /\ Advance

OverlapNext ==
  \/ \E s \in SoloIds, c \in ChatIds, tf \in PairTimeframes, via \in EntryPoints :
       PairStart(s, c, tf, via)
  \/ \E s \in SoloIds, c \in ChatIds, tf \in PairTimeframes, via \in EntryPoints :
       SecondStartCall(s, c, tf, via)
  \/ \E s \in SoloIds : StartSessionFetched(s)
  \/ \E s \in SoloIds : StartSessionSubscribed(s)
  \/ \E s \in SoloIds : SecondFetched(s)
  \/ \E s \in SoloIds : SecondSubscribed(s)
  \/ Tick
  \/ \E t \in timers : TimerFires(t)
  \/ OverlapAdvance

OverlapSpec == Init /\ [][OverlapNext]_vars

\* ------------------------------------ two sessions, one window, ticks counted
\* processTick on the tickCount of the forming candle: 1 for a new forming
\* candle, one more for a tick in its bucket.
tickCountAfter(w, n, epoch, tf) ==
  LET bucket == getCandleBoundary(epoch, tf) IN
  IF w.forming = None THEN 1
  ELSE IF bucket = w.forming THEN n + 1
  ELSE IF bucket > w.forming THEN 1
  ELSE n

RECURSIVE fanOutCount(_, _, _, _)
\* The tickCounts after the registered handlers have run in order.
fanOutCount(ls, ws, cs, epoch) ==
  IF ls = <<>> THEN cs
  ELSE LET session == sessions[Head(ls)]
           tf == session.timeframe
       IN fanOutCount(Tail(ls), onTick(ws, Head(ls), epoch),
                      IF isLive(session)
                        THEN [cs EXCEPT ![tf] = tickCountAfter(ws[tf], @, epoch, tf)]
                        ELSE cs,
                      epoch)

\* The feed delivers a tick, and the tick and its handling are counted.
CountedTick ==
  /\ connected
  /\ refCount > 0
  /\ ticks.total < MaxTicks
  /\ windows' = fanOut(listeners, windows, now)
  /\ ticks' =
       [total |-> ticks.total + 1,
        bucket |-> [tf \in TimeframeInputs |-> getCandleBoundary(now, tf)],
        received |-> [tf \in TimeframeInputs |->
                       IF ticks.bucket[tf] = getCandleBoundary(now, tf)
                         THEN ticks.received[tf] + 1 ELSE 1],
        count |-> fanOutCount(listeners, windows, ticks.count, now)]
  /\ UNCHANGED <<now, sessions, timers, tickHandlers, listeners, connected,
                 refCount, startCall, stopPending, restartCall, emitted,
                 outcome, started, stoppedEv, unsubCalls, subCalls,
                 stopCalled, requests, call, storage, lastTick, secondCall,
                 debug, mem>>

\* Two sessions of one symbol and timeframe are started in the first seconds
\* and may be stopped.
ShareNext ==
  \/ \E s \in SessionIds, c \in ChatIds, tf \in PairTimeframes, via \in EntryPoints :
       PairStart(s, c, tf, via)
  \/ \E s \in SessionIds : StartSessionFetched(s)
  \/ \E s \in SessionIds : StartSessionSubscribed(s)
  \/ \E s \in SessionIds : StopSessionCall(s)
  \/ \E s \in SessionIds : StopSessionUnsubscribed(s)
  \/ CountedTick
  \/ \E t \in timers : TimerFires(t)
  \/ PairAdvance

ShareSpec == Init /\ [][ShareNext]_vars

\* ------------------------------------------------- one session, late timers
\* One session of timeframe 60 is started in the first seconds and stays.
\* setTimeout runs a callback no earlier than asked but possibly later: here
\* a due timer may wait up to MaxTimerLate seconds while ticks keep arriving.
LateAdvance ==
  /\ now < MaxTime
  /\ \A t \in timers : now < t.due + MaxTimerLate
  /\ \/ now < StartTime + PairCallWindow
     \/ \A s \in SessionIds : startCall[s].stage = "idle"
  /\ \E s \in SessionIds : canAct(s)
  /\ now' = now + 1
  /\ UNCHANGED <<sessions, timers, tickHandlers, listeners, windows,
                 connected, refCount, startCall, stopPending, restartCall,
                 emitted, outcome, started, stoppedEv, unsubCalls, subCalls,
                 stopCalled, requests, call, storage, lastTick, secondCall,
                 ticks, debug, mem>>

LateNext ==
  \/ \E s \in SoloIds, c \in ChatIds, tf \in PairTimeframes, via \in EntryPoints :
       PairStart(s, c, tf, via)
  \/ \E s \in SoloIds : StartSessionFetched(s)
  \/ \E s \in SoloIds : StartSessionSubscribed(s)
  \/ Tick
  \/ \E t \in timers : TimerFires(t)
  \/ LateAdvance

LateSpec == Init /\ [][LateNext]_vars

\* ------------------------------------------------ one chat, several starts
\* handleStartSession of the chat front-end, and the HTTP endpoint.  The
\* chat handler names its session chatId_Date.now(): an id nobody has used.
\* No session of the chat is active: the handler goes straight to
\* startSession and awaits it.
ChatStart(s, chatId, timeframe) ==
  /\ storage.handler[s].start = ""
  /\ outcome[s] = "none"
  /\ getSessionByChatId(chatId) = {}
  /\ startSessionEntered(s, chatId, timeframe, "chat")
  /\ storage' = [storage EXCEPT !.handler[s].start = "chat"]

\* A session of the chat is active: the handler calls stopSession for it and
\* awaits that call.
ChatStartStops(s, existingSession, chatId) ==
  /\ storage.handler[s].start = ""
  /\ outcome[s] = "none"
  /\ existingSession \in getSessionByChatId(chatId)
  /\ storage.handler[existingSession].stop = ""
  /\ stopSessionEntered(existingSession)
  /\ storage' = [storage EXCEPT !.handler[s].start = "stopping",
                                !.handler[existingSession].stop = "chatStart"]

\* stopSession has returned: the handler goes on to startSession.
ChatStartResumes(s, existingSession, timeframe) ==
  /\ storage.handler[s].start = "stopping"
  /\ storage.handler[existingSession].stop = "chatStart"
  /\ stopPending[existingSession] = 0
  /\ startSessionEntered(s, sessions[existingSession].chatId, timeframe, "chat")
  /\ storage' = [storage EXCEPT !.handler[s].start = "chat",
                                !.handler[existingSession].stop = ""]

\* POST /api/startSession with a session_id nobody has used.
HttpStart(s, chatId, timeframe) ==
  /\ outcome[s] = "none"
  /\ HandleStart(s, chatId, timeframe, "http")

ChatNext ==
  \/ \E s \in SessionIds, c \in ChatIds, tf \in PairTimeframes : ChatStart(s, c, tf)
  \/ \E s, old \in SessionIds, c \in ChatIds : ChatStartStops(s, old, c)
  \/ \E s, old \in SessionIds, tf \in PairTimeframes : ChatStartResumes(s, old, tf)
  \/ \E s \in SessionIds, c \in ChatIds, tf \in PairTimeframes : HttpStart(s, c, tf)
  \/ \E s \in SessionIds : StartSessionFetched(s)
  \/ \E s \in SessionIds : StartSessionSubscribed(s)
  \/ \E s \in SessionIds : StartHandlerReturns(s)
  \/ \E s \in SessionIds : StopSessionUnsubscribed(s)
  \/ Tick
  \/ \E t \in timers : TimerFires(t)
  \/ StorageAdvance

ChatSpec == Init /\ [][ChatNext]_vars

\* ------------------------------------------------------ the debug signal
\* Re-run Signal that goes through the scheduler's emitPreCloseSignal.
rerunSignalEmits(m, s, signal) == emitPreCloseSignal(m, s, signal.candleCloseTime)

\* What handleRerunSignal does to the manager once it has a signal: it hands
\* the signal to sendSignalToChat, which writes the caption, saves the signal
\* and sends it; the session it is given is only read.
rerunSignal(m, s, signal) == m

\* getDebugSignal(symbol, timeframe): null without a closed candle, else the
\* signal generateSignal builds for the window as it is.  The close time is
\* that of the forming candle, or of the last closed candle when there is no
\* forming candle or its timestamp is 0.
getDebugSignal(timeframe) ==
  LET closedCandles == getClosedCandles(timeframe)
      formingCandle == getFormingCandle(timeframe)
      timestamp == IF formingCandle # None /\ formingCandle # 0
                     THEN formingCandle
                     ELSE closedCandles[Len(closedCandles)]
  IN IF Len(closedCandles) = 0
       THEN [returned |-> "null", timeframe |-> timeframe,
             candleCloseTime |-> None, formingCandle |-> None]
       ELSE [returned |-> "signal", timeframe |-> timeframe,
             candleCloseTime |-> getCandleCloseTime(timestamp, timeframe),
             formingCandle |-> formingCandle]

\* The debug call as the history keeps it.
debugAfter(r, sent) ==
  [calls |-> debug.calls + 1, returned |-> r.returned,
   timeframe |-> r.timeframe, candleCloseTime |-> r.candleCloseTime,
   formingCandle |-> r.formingCandle, sent |-> debug.sent + sent]

\* sessionManager.getDebugSignal is called for a timeframe.
GetDebugSignal(timeframe) ==
  /\ debug.calls < MaxDebugCalls
  /\ debug' = debugAfter(getDebugSignal(timeframe), 0)
  /\ UNCHANGED <<now, sessions, timers, tickHandlers, listeners, windows,
                 connected, refCount, startCall, stopPending, restartCall,
                 emitted, outcome, started, stoppedEv, unsubCalls, subCalls,
                 stopCalled, requests, call, storage, lastTick, secondCall,
                 ticks, mem>>

\* The Re-run Signal button of an active session: the handler asks for the
\* debug signal and sends it to the chat, or says that there is not enough
\* data.  For a session that is not active it only sends a message.
HandleRerunSignal(s) ==
  LET signal == getDebugSignal(sessions[s].timeframe)
      m == IF signal.returned = "null" THEN Mgr ELSE rerunSignal(Mgr, s, signal)
  IN
  /\ isLive(sessions[s])
  /\ debug.calls < MaxDebugCalls
  /\ debug' = debugAfter(signal, IF signal.returned = "null" THEN 0 ELSE 1)
  /\ sessions' = m.sessions
  /\ timers' = m.timers
  /\ emitted' = m.emitted
  /\ UNCHANGED <<now, tickHandlers, listeners, windows, connected, refCount,
                 startCall, stopPending, restartCall, outcome, started,
                 stoppedEv, unsubCalls, subCalls, stopCalled, requests, call,
                 storage, lastTick, secondCall, ticks, mem>>

\* One session of timeframe 60 is started in the first seconds and stays;
\* ticks arrive, timers fire when due, and the debug signal is asked for at
\* any moment.
DebugNext ==
  \/ \E s \in SoloIds, c \in ChatIds, tf \in PairTimeframes, via \in EntryPoints :
       PairStart(s, c, tf, via)
  \/ \E s \in SoloIds : StartSessionFetched(s)
  \/ \E s \in SoloIds : StartSessionSubscribed(s)
  \/ Tick
  \/ \E t \in timers : TimerFires(t)
  \/ PairAdvance
  \/ \E tf \in TimeframeInputs : GetDebugSignal(tf)
  \/ \E s \in SoloIds : HandleRerunSignal(s)

DebugSpec == Init /\ [][DebugNext]_vars

\* ---------------------------------------------------- MemStorage.signals
\* The list is cut when it is longer than signalsCap, to its last signalsKept.
signalsCap == 10000
signalsKept == 5000

\* The limit of getSignals when the caller gives none.
defaultLimit == 100

LimitInputs == {0, 1, 2, defaultLimit}

\* Array.prototype.slice(start): a negative start counts from the end, and
\* -0 is 0.
slice(seq, start) ==
  LET len == Len(seq)
      k == IF start < 0 THEN Max(len + start, 0)
           ELSE IF start < len THEN start ELSE len
  IN SubSeq(seq, k + 1, len)

\* Array.prototype.reverse
reverse(seq) == [i \in 1..Len(seq) |-> seq[Len(seq) - i + 1]]

\* saveSignal: push, then cut a list that is too long.
saveSignal(signals, signal) ==
  LET pushed == Append(signals, signal) IN
  IF Len(pushed) > signalsCap THEN slice(pushed, 0 - signalsKept) ELSE pushed

\* getSignals(sessionId, limit)
getSignals(signals, sessionId, limit) ==
  reverse(slice(SelectSeq(signals, LAMBDA x : x.sessionId = sessionId),
                0 - limit))

\* The signals n+1 .. n+count of one session, in the order they were saved.
savedSignals(sessionId, n, count) ==
  [i \in 1..count |-> [sessionId |-> sessionId, n |-> n + i]]

\* The storage is empty, or it holds one signal less than the cap.
MemInit ==
  /\ InitManager
  /\ call = NoCall
  /\ \E count \in {0, signalsCap - 1} :
       mem = [NoMem EXCEPT !.signals = savedSignals("s1", 0, count),
                           !.serial = count]

\* saveSignal(signal) for a signal of some session.
SaveSignal(sessionId) ==
  /\ mem.saves < MaxSaves
  /\ mem' = [NoMem EXCEPT
               !.signals = saveSignal(mem.signals,
                                      [sessionId |-> sessionId,
                                       n |-> mem.serial + 1]),
               !.serial = mem.serial + 1,
               !.saves = mem.saves + 1]
  /\ UNCHANGED <<now, sessions, timers, tickHandlers, listeners, windows,
                 connected, refCount, startCall, stopPending, restartCall,
                 emitted, outcome, started, stoppedEv, unsubCalls, subCalls,
                 stopCalled, requests, call, storage, lastTick, secondCall,
                 ticks, debug>>

\* getSignals(sessionId, limit) returns.
GetSignals(sessionId, limit) ==
  /\ mem' = [mem EXCEPT !.asked = TRUE, !.sessionId = sessionId,
                        !.limit = limit,
                        !.result = getSignals(mem.signals, sessionId, limit)]
  /\ UNCHANGED <<now, sessions, timers, tickHandlers, listeners, windows,
                 connected, refCount, startCall, stopPending, restartCall,
                 emitted, outcome, started, stoppedEv, unsubCalls, subCalls,
                 stopCalled, requests, call, storage, lastTick, secondCall,
                 ticks, debug>>

MemNext ==
  \/ \E sessionId \in SessionIds : SaveSignal(sessionId)
  \/ \E sessionId \in SessionIds, limit \in LimitInputs :
       GetSignals(sessionId, limit)

MemSpec == MemInit /\ [][MemNext]_vars

\* ================================================================== claims
\* The forming-candle start a signal was emitted for.
formingStartOf(e) == e.candleCloseTime - sessions[e.id].timeframe

\* The pending timers armed for session s.
timersOf(s) == {t \in timers : t.id = s}

\* The session was started with one of the supported timeframes.
supported(s) == sessions[s].timeframe \in TIMEFRAMES

\* Positions of the log that hold signals of one session, in order.
Successive(i, j) ==
  /\ i \in 1..Len(emitted)
  /\ j \in 1..Len(emitted)
  /\ i < j
  /\ emitted[i].id = emitted[j].id

\* C1: for one session, whatever the ticks, deadline-timer firings, polls,
\* late arms and reconnects, at most one preCloseSignal is emitted per
\* distinct forming-candle start.
C1_Dedup ==
  \A i, j \in 1..Len(emitted) :
    Successive(i, j) => formingStartOf(emitted[i]) # formingStartOf(emitted[j])

\* The scheduler has been driven past the deadline of a candle it has
\* signalled, and past the deadline of the following one, with no new forming
\* bucket: the late-arm timer is pending and the candle has its one signal.
C1_Witness ==
  \E s \in SessionIds :
    LET B == sessions[s].lastSignalCandleTimestamp
        tf == sessions[s].timeframe IN
    /\ sessions[s].status = "active"
    /\ B # None
    /\ getFormingCandle(tf) = B
    /\ now > getCandleCloseTime(B, tf) + tf - preCloseSeconds
    /\ \E t \in timersOf(s) : t.kind = "next"
    /\ Cardinality({i \in 1..Len(emitted) :
                      emitted[i].id = s /\ formingStartOf(emitted[i]) = B}) = 1

\* C2: for one session, the candleCloseTime values of successively emitted
\* preCloseSignal events never decrease.
C2_Order ==
  \A i, j \in 1..Len(emitted) :
    Successive(i, j) => emitted[i].candleCloseTime <= emitted[j].candleCloseTime

\* Two candles of one session have been signalled, one after the other.
C2_Witness ==
  \E i, j \in 1..Len(emitted) :
    /\ Successive(i, j)
    /\ emitted[i].candleCloseTime < emitted[j].candleCloseTime

\* C3: once stopSession(id) has been called no preCloseSignal for the session
\* is emitted, and once the call has returned no pre-close timer of the
\* session is pending, whatever was in flight when the stop was called.
C3_SilentAfterStop ==
  /\ [][\A s \in SessionIds :
          stopCalled[s] /\ supported(s)' =>
            \A k \in (Len(emitted) + 1)..Len(emitted') : emitted'[k].id # s]_vars
  /\ [](\A s \in SessionIds :
          stopCalled[s] /\ stopPending[s] = 0 /\ supported(s) => timersOf(s) = {})

Buckets ==
  {getCandleBoundary(t, tf) : t \in StartTime..MaxTime, tf \in TIMEFRAMES}

\* Session s is active and the forming candle of its window starts at B, at
\* the pre-close deadline of that candle; no call is about to seed a window.
atDeadline(s, B) ==
  /\ sessions[s].status = "active"
  /\ \A x \in SessionIds : startCall[x].stage # "fetch" /\ restartCall[x].fetch = 0
  /\ supported(s)
  /\ getFormingCandle(sessions[s].timeframe) = B
  /\ now = getCandleCloseTime(B, sessions[s].timeframe) - preCloseSeconds

\* The signal of session s for the candle starting at B has been emitted and
\* a timer of the session is pending.
signalledAndArmed(s, B) ==
  /\ \E i \in 1..Len(emitted) :
       /\ emitted[i].id = s
       /\ emitted[i].candleCloseTime = B + sessions[s].timeframe
  /\ timersOf(s) # {}

\* C5: if the forming candle of an active session starts at B when the clock
\* is at B + timeframe - preCloseSeconds, and the session stays active with
\* no reconnect, the preCloseSignal with candleCloseTime = B + timeframe is
\* eventually emitted and the scheduler is armed again.
C5_SignalEventually ==
  \A s \in SessionIds : \A B \in Buckets :
    atDeadline(s, B) ~> signalledAndArmed(s, B)

\* C5 for the sessions whose startSession has returned the session.
C5_StartedSignalEventually ==
  \A s \in SessionIds : \A B \in Buckets :
    (atDeadline(s, B) /\ outcome[s] = "started") ~> signalledAndArmed(s, B)

\* A session whose startSession returned was at the deadline of its forming
\* candle, has emitted the signal of that candle and is armed again.
C5_Witness ==
  \E s \in SessionIds : \E B \in Buckets :
    /\ outcome[s] = "started"
    /\ sessions[s].lastSignalCandleTimestamp = B
    /\ signalledAndArmed(s, B)
    /\ \E i \in 1..Len(emitted) :
         /\ emitted[i].id = s
         /\ emitted[i].at = B + sessions[s].timeframe - preCloseSeconds

\* C6: startSession with an id that is in the session table fails with a
\* conflict and leaves the table, the tick handlers, the aggregator windows,
\* the feed subscriptions and the timers as they were.
C6_ConflictLeavesAll ==
  [][\A s \in SessionIds :
       has(s) /\ (\/ StartSessionConflict(s)
                  \/ \E c \in ChatIds, tf \in TimeframeInputs, via \in EntryPoints :
                       StartSessionCall(s, c, tf, via)) =>
         /\ outcome'[s] = "conflict"
         /\ startCall'[s].stage = "idle"
         /\ UNCHANGED <<sessions, tickHandlers, listeners, windows, refCount,
                        timers>>]_vars

\* startSession was rejected for an active session whose timer is pending.
C6_Witness ==
  \E s \in SessionIds :
    /\ outcome[s] = "conflict"
    /\ sessions[s].status = "active"
    /\ timersOf(s) # {}
    /\ s \in tickHandlers
    /\ refCount > 0

\* C7: after a startSession that failed, no session with the id is recorded
\* as active, no tick handler of it is registered on the feed, and a retry
\* with the same id is not rejected as a conflict.
C7_FailedStartLeavesNothing ==
  \A s \in SessionIds :
    outcome[s] = "failed" /\ (has(s) => supported(s)) =>
      /\ sessions[s].status # "active"
      /\ s \notin getSessionByChatId(sessions[s].chatId)
      /\ s \notin tickHandlers
      /\ \A k \in 1..Len(listeners) : listeners[k] # s
      /\ ~conflicts(s)

\* C8: when stopSession(id) completes the manager holds no record for id and
\* a later startSession with the same id is accepted.
C8_StopDestroys ==
  [][\A s \in SessionIds :
       StopSessionUnsubscribed(s) /\ supported(s) =>
         /\ getSession(s)' = NoSession
         /\ s \notin getAllSessions'
         /\ ~conflicts(s)']_vars

\* C9: when stopSession(id) on a session of the table completes, the status
\* of the session is stopped, its handler is registered neither in
\* tickHandlers nor on the feed, its aggregator window is removed,
\* sessionStopped is emitted, and each such call issued unsubscribeTicks once.
C9_StopEffects ==
  /\ [][\A s \in SessionIds :
          StopSessionUnsubscribed(s) =>
            /\ sessions'[s].status = "stopped"
            /\ s \notin tickHandlers'
            /\ \A k \in 1..Len(listeners') : listeners'[k] # s
            /\ windows'[sessions[s].timeframe] = NoWindow
            /\ stoppedEv'[s] = stoppedEv[s] + 1]_vars
  /\ [](\A s \in SessionIds : unsubCalls[s] = stoppedEv[s] + stopPending[s])

\* A session that was started and has emitted a signal has been stopped, and
\* the call has completed.
C9_Witness ==
  \E s \in SessionIds :
    /\ started[s] > 0
    /\ \E i \in 1..Len(emitted) : emitted[i].id = s
    /\ sessions[s].status = "stopped"
    /\ stoppedEv[s] = 1
    /\ stopPending[s] = 0

\* C10: startSession with a timeframe outside TIMEFRAMES is rejected from
\* either entry point: no history is requested for it, no session is
\* recorded with it and no subscription is made for it.
C10_TimeframeChecked ==
  \A s \in SessionIds :
    /\ startCall[s].stage # "idle" => startCall[s].timeframe \in TIMEFRAMES
    /\ has(s) => supported(s)

\* No startSession and no restartSession call of session s is in flight.
settled(s) ==
  /\ startCall[s].stage = "idle"
  /\ restartCall[s].fetch + restartCall[s].subscribe = 0

\* stopSession(s) is called for a session that startSession has returned,
\* that is active and has not been stopped before.
stopsStarted(s) ==
  /\ StopSessionCall(s)
  /\ sessions[s].status = "active"
  /\ outcome[s] = "started"
  /\ unsubCalls[s] = 0
  /\ settled(s)
  /\ supported(s)

\* C13: when a started session is stopped, whatever the number of reconnects
\* before, the manager has issued as many unsubscribeTicks calls as
\* subscribeTicks calls for it (the feed's reference count of the symbol
\* returns to zero only if it has).
C13_UnsubscribesMatchSubscribes ==
  [][\A s \in SessionIds :
       stopsStarted(s) => unsubCalls'[s] = subCalls'[s]]_vars

\* Session s is active and startSession has returned it.
running(s) ==
  /\ sessions[s].status = "active"
  /\ outcome[s] = "started"
  /\ settled(s)
  /\ supported(s)

\* The feed is down and no tick has arrived since the candle period that
\* signal e was emitted for: the forming candle of the window is still the
\* candle of that period.
noTickSince(e) ==
  /\ ~connected
  /\ getFormingCandle(sessions[e.id].timeframe) = formingStartOf(e)

\* The pre-close time of the candle period after the one of signal e has
\* passed, and so has the time a due timer may take to run.
nextPreClosePassed(e) ==
  now > e.candleCloseTime + sessions[e.id].timeframe - preCloseSeconds + MaxLate

\* C12: with the feed down and no ticks arriving, a running session that
\* emitted the pre-close signal of one candle period has emitted the signal
\* of the following period once that period's pre-close time has passed.
C12_SignalsWithoutTicks ==
  \A i \in 1..Len(emitted) :
    LET e == emitted[i] IN
    (running(e.id) /\ noTickSince(e) /\ nextPreClosePassed(e))
      => \E j \in 1..Len(emitted) :
           /\ emitted[j].id = e.id
           /\ emitted[j].candleCloseTime = e.candleCloseTime + sessions[e.id].timeframe

\* A restart of session s has got its history: the window is seeded again
\* and subscribeTicks has been called again.
reseeded(s) == restartCall[s].subscribe > 0

\* The restart step of session s that receives the history seeds the window
\* with it, clears the forming candle and calls subscribeTicks.
reseeds(s) ==
  RestartFetched(s) =>
    /\ windows'[sessions[s].timeframe] =
         [exists |-> TRUE,
          closed |-> KeepLast(fetchCandleHistory(sessions[s].timeframe, historyCandles),
                              windowCapacity),
          forming |-> None]
    /\ subCalls'[s] = subCalls[s] + 1

\* Session s has been through a restart and is at the pre-close deadline of
\* the forming candle B that ticks have made since.
restartedAtDeadline(s, B) ==
  /\ atDeadline(s, B)
  /\ running(s)
  /\ subCalls[s] > 1

\* A later connected event has started another restart of session s.
restarting(s) == restartCall[s].fetch + restartCall[s].subscribe > 0

gatePath ==
  call.returned /\ call.closedCandlesCount < minCandlesForSignal

\* generateSignal has returned on the scored path: enough candles and a
\* prediction that reports no volatility.
scoredPath ==
  /\ call.returned
  /\ call.closedCandlesCount >= minCandlesForSignal
  /\ ~call.prediction.volatility.isVolatile

\* a >= b for a double a and an integer b; false for NaN.
atLeast(a, b) == a.k = "inf" \/ (a.k = "fin" /\ a.v >= b)

\* a <= b for a double a and an integer b; false for NaN.
atMost(a, b) == a.k = "fin" /\ a.v <= b

\* C14: a result with volatilityOverride = true has direction NO_TRADE and
\* confidence 0, and carries the indicators, the psychology and the
\* volatility reason of the prediction.
C14_VolatilityNoTrade ==
  (call.returned /\ call.result.volatilityOverride)
    => /\ call.result.direction = "NO_TRADE"
       /\ call.result.confidence = Num(0)
       /\ call.result.indicators = call.prediction.indicators
       /\ call.result.psychology = call.prediction.psychology
       /\ call.result.volatilityReason = call.prediction.volatility.reason

\* A volatility override was returned for a prediction whose indicators and
\* patterns would have produced votes.
C14_Witness ==
  /\ call.returned
  /\ call.result.volatilityOverride
  /\ call.result.indicators.rsi14 = 25
  /\ call.result.psychology.patterns # <<>>
  /\ call.result.votes = <<>>

\* C15: a result whose direction is CALL or PUT has confidence >= 60, for
\* every input and every SessionOptions.
C15_ConfidenceGate ==
  (call.returned /\ call.result.direction \in {"CALL", "PUT"})
    => atLeast(call.result.confidence, minConfidence)

\* C15 for the calls in which no weight is Infinity.
C15_FiniteConfidenceGate ==
  (/\ call.returned
   /\ call.result.direction \in {"CALL", "PUT"}
   /\ \A n \in DOMAIN call.options.customWeights :
        call.options.customWeights[n].k = "fin")
    => atLeast(call.result.confidence, minConfidence)

\* C16: on every return path pUp + pDown = 1 and
\* confidence = round(max(pUp, pDown) * 100).
C16_ProbabilityClosure ==
  call.returned
    => /\ ~call.result.pUp.nan
       /\ call.result.pDown = oneMinus(call.result.pUp)
       /\ call.result.confidence = mathRound100(maxWithComplement(call.result.pUp))

\* C17: with fewer than 50 closed candles generateSignal returns NO_TRADE,
\* confidence 0, no votes, no indicators and volatilityOverride = false, and
\* does not call the prediction engine.
C17_InsufficientData ==
  gatePath
    => /\ call.result.direction = "NO_TRADE"
       /\ call.result.confidence = Num(0)
       /\ call.result.votes = <<>>
       /\ call.result.indicators = NoIndicators
       /\ ~call.result.volatilityOverride
       /\ ~call.result.predicted

\* 49 candles, a prediction that would report volatility and votes, options
\* with an infinite weight: the gate has returned.
C17_Witness ==
  /\ gatePath
  /\ call.closedCandlesCount = 49
  /\ call.prediction.volatility.isVolatile
  /\ call.prediction.indicators.rsi14 = 75
  /\ call.options.customWeights # <<>>
  /\ call.result.direction = "NO_TRADE"

\* C18: on the scored path the direction is NO_TRADE exactly when
\* confidence < 60; otherwise it is CALL exactly when pUp > 0.5, and PUT when
\* pUp <= 0.5; pUp is finalUp / (finalUp + finalDown + 1e-9) over the votes.
C18_Decision ==
  scoredPath
    => LET r == call.result
           low == lessThan(r.confidence, minConfidence)
       IN /\ r.pUp = divide(sumOf(r.votes, "UP"), sumOf(r.votes, "DOWN"))
          /\ (r.direction = "NO_TRADE") <=> low
          /\ (r.direction = "CALL") <=> (~low /\ greater(r.pUp, 1, 2))
          /\ (~low /\ ~r.pUp.nan /\ ~greater(r.pUp, 1, 2)) => r.direction = "PUT"

\* A scored CALL with weight on both sides, and confidence below 100.
C18_Witness ==
  /\ scoredPath
  /\ call.result.direction = "CALL"
  /\ sumOf(call.result.votes, "UP").k = "fin"
  /\ sumOf(call.result.votes, "DOWN") # Num(0)
  /\ lessThan(call.result.confidence, 100)

\* No vote of direction UP or DOWN is in the result: the total UP weight
\* and the total DOWN weight are zero.
degenerate(votes) ==
  \A i \in 1..Len(votes) : votes[i].direction = "NEUTRAL"

\* C19: on the scored path a vote set without any UP or DOWN vote yields
\* NO_TRADE, not CALL or PUT.
C19_DegenerateNoTrade ==
  (scoredPath /\ degenerate(call.result.votes))
    => call.result.direction = "NO_TRADE"

\* C20: in every result every vote has weight >= 0, 0 <= pUp <= 1,
\* pDown = 1 - pUp and 0 <= confidence <= 100.
C20_Ranges ==
  call.returned
    => LET r == call.result IN
       /\ \A i \in 1..Len(r.votes) : atLeast(r.votes[i].weight, 0)
       /\ ~r.pUp.nan
       /\ ~smaller(r.pUp, 0, 1)
       /\ ~greater(r.pUp, 1, 1)
       /\ r.pDown = oneMinus(r.pUp)
       /\ atLeast(r.confidence, 0)
       /\ atMost(r.confidence, 100)

\* --------------------------------------------- time utilities and deadlines
\* C29: for every integer timestamp t >= 0 and timeframe tf > 0,
\* getCandleCloseTime(t, tf) is the smallest multiple of tf strictly greater
\* than t and getCandleBoundary(t, tf) is the largest multiple of tf that is
\* <= t; a timestamp on a boundary belongs to the bucket that starts there
\* and its close time is t + tf.
C29_BoundaryAndClose ==
  \A t \in 0..now, tf \in TimeframeInputs :
    LET boundary == getCandleBoundary(t, tf)
        close == getCandleCloseTime(t, tf)
    IN /\ boundary % tf = 0
       /\ boundary <= t
       /\ t < boundary + tf
       /\ close % tf = 0
       /\ close > t
       /\ close - tf <= t
       /\ t % tf = 0 => (boundary = t /\ close = t + tf)

\* A tick stamped exactly on a boundary has made the forming candle that
\* starts there, and the scheduler has armed the deadline timer of the close
\* time one timeframe later.
C29_Witness ==
  \E s \in SessionIds, t \in timers :
    /\ sessions[s].status = "active"
    /\ now % sessions[s].timeframe = 0
    /\ getFormingCandle(sessions[s].timeframe) = now
    /\ t.id = s
    /\ t.kind = "deadline"
    /\ t.forming = now
    /\ t.close = now + sessions[s].timeframe

\* C25: no preCloseSignal is emitted before the pre-close deadline of the
\* candle it names: at every step that emits, the clock is at or after
\* candleCloseTime - preCloseSeconds, whether a deadline timer fires or a
\* late arm emits at once.
C25_NoEarlySignal ==
  [][\A i \in (Len(emitted) + 1)..Len(emitted') :
       /\ emitted'[i].at = now
       /\ now >= emitted'[i].candleCloseTime - preCloseSeconds]_vars

\* One signal was emitted at its deadline and another by a late arm, after
\* the deadline of its candle and before its close.
C25_Witness ==
  \E i, j \in 1..Len(emitted) :
    /\ emitted[i].at = emitted[i].candleCloseTime - preCloseSeconds
    /\ emitted[j].at > emitted[j].candleCloseTime - preCloseSeconds
    /\ emitted[j].at < emitted[j].candleCloseTime

\* ------------------------------------------------- votes: filter and weights
\* The votes the voters of collectVotes produce for a prediction, before the
\* filter and the weights.
producedVotes(prediction) ==
  voteFromEMACross(prediction.indicators.ema5, prediction.indicators.ema21,
                   prediction.estimatedClose, "ema_cross_5_21")
  \o voteFromRSI(prediction.indicators)
  \o voteFromADX(prediction.indicators)
  \o voteFromPsychology(prediction.psychology)

\* The produced votes an enabledIndicators option lets through.
keptVotes(prediction, enabledIndicators) ==
  IF enabledIndicators.given
    THEN SelectSeq(producedVotes(prediction),
                   LAMBDA v : v.indicator \in enabledIndicators.names)
    ELSE producedVotes(prediction)

\* The indicator names and directions of a vote list, in order.
ballots(votes) ==
  [i \in 1..Len(votes) |-> <<votes[i].indicator, votes[i].direction>>]

\* C26: when enabledIndicators is given, every vote of the result has a
\* name in it (and every produced vote with such a name is in the result);
\* when it is absent, every produced vote is kept: no entry of the default
\* table is disabled, and names missing from it count as enabled.
C26_EnabledFilter ==
  /\ (call.returned /\ call.options.enabledIndicators.given)
       => \A i \in 1..Len(call.result.votes) :
            call.result.votes[i].indicator \in call.options.enabledIndicators.names
  /\ scoredPath
       => ballots(call.result.votes)
            = ballots(keptVotes(call.prediction, call.options.enabledIndicators))

\* A list of two names was given, votes with other names were produced, and
\* the result holds the two listed ones alone.
C26_Witness ==
  /\ scoredPath
  /\ call.options.enabledIndicators.given
  /\ Len(producedVotes(call.prediction)) > 3
  /\ ballots(call.result.votes)
       = <<<<"rsi_trend", "DOWN">>, <<"adx_trend_strength", "NEUTRAL">>>>

\* The multiplier C27 names for an indicator: the customWeights entry when
\* there is one, else the weight of the default table, else 1.0; in tenths.
multiplierOf(name, customWeights) ==
  IF name \in DOMAIN customWeights THEN customWeights[name]
  ELSE IF name \in DOMAIN DEFAULT_INDICATOR_WEIGHTS
    THEN Num(DEFAULT_INDICATOR_WEIGHTS[name])
  ELSE Num(10)

\* C27: the weight of each kept vote is the producer's base weight times the
\* customWeights entry of its name when there is one (an entry of 0
\* included), else times the default weight of the name (1.0 for a name that
\* is not in the table); each vote is multiplied once.
C27_WeightOnce ==
  scoredPath
    => LET kept == keptVotes(call.prediction, call.options.enabledIndicators)
       IN /\ Len(call.result.votes) = Len(kept)
          /\ \A i \in 1..Len(kept) :
               call.result.votes[i].weight
                 = times(kept[i].weight,
                         multiplierOf(kept[i].indicator, call.options.customWeights))

\* A custom multiplier of 0 set the cross vote to weight 0, next to a vote
\* with a table weight (1.1) and a vote whose name is not in the table (1.0).
C27_Witness ==
  /\ scoredPath
  /\ "ema_cross_5_21" \in DOMAIN call.options.customWeights
  /\ \E i, j, k \in 1..Len(call.result.votes) :
       /\ call.result.votes[i] = Vote("ema_cross_5_21", "UP", Num(0))
       /\ call.result.votes[j] = Vote("wick_rejection", "UP", Num(7700))
       /\ call.result.votes[k] = Vote("rsi_trend", "UP", Num(5000))

\* The votes of a list that are not NEUTRAL.
directional(votes) == SelectSeq(votes, LAMBDA v : v.direction # "NEUTRAL")

\* Weights a NEUTRAL vote may carry.
NeutralWeights == {Num(0), Num(5000), Infinity, NaN}

\* finalUp, finalDown, pUp, confidence and direction as generateSignal
\* computes them from a vote list.
outcomeOf(votes) ==
  LET scores == calculateScores(votes)
      confidence == mathRound100(maxWithComplement(scores.pUp))
  IN [finalUp |-> scores.finalUp, finalDown |-> scores.finalDown,
      pUp |-> scores.pUp, confidence |-> confidence,
      direction |-> determineDirection(scores.pUp, confidence)]

\* C28: NEUTRAL votes do not influence the outcome: with the NEUTRAL votes
\* of the result removed, or with a NEUTRAL vote of any weight added in
\* front or at the end, finalUp, finalDown, pUp, confidence and direction
\* are the ones of the result.
C28_NeutralIgnored ==
  scoredPath
    => LET votes == call.result.votes
           o == outcomeOf(votes)
       IN /\ o.pUp = call.result.pUp
          /\ o.confidence = call.result.confidence
          /\ o.direction = call.result.direction
          /\ outcomeOf(directional(votes)) = o
          /\ \A w \in NeutralWeights :
               /\ outcomeOf(<<Vote("extra", "NEUTRAL", w)>> \o votes) = o
               /\ outcomeOf(Append(votes, Vote("extra", "NEUTRAL", w))) = o

\* The result holds two NEUTRAL votes between an UP and a DOWN vote.
C28_Witness ==
  /\ scoredPath
  /\ Len(call.result.votes) - Len(directional(call.result.votes)) >= 2
  /\ sumOf(call.result.votes, "UP") # Num(0)
  /\ sumOf(call.result.votes, "DOWN") # Num(0)

\* ------------------------------------------------------------- idempotence
\* A record without its timestamp field.
withoutTimestamp(r) == [f \in DOMAIN r \ {"timestamp"} |-> r[f]]

\* C21: two generateSignal calls with identical arguments, made at
\* different moments, return results that are identical in every field.
C21_Deterministic ==
  (call.returned /\ call.earlier # <<>>) => call.result = call.earlier

\* The two results agree in every field other than timestamp.
C21_SameButTimestamp ==
  (call.returned /\ call.earlier # <<>>)
    => withoutTimestamp(call.result) = withoutTimestamp(call.earlier)

\* C22: with a storage present, once the handlers of the entry points have
\* returned, the storage holds the record of every session that startSession
\* created, with the status the session has (active, or stopped after a stop through
\* the Stop Session button, the /stop command or the HTTP endpoint).
C22_StorageReceives ==
  \A s \in SessionIds :
    (/\ storage.handler[s] = [start |-> "", stop |-> ""]
     /\ startCall[s].stage = "idle"
     /\ stopPending[s] = 0
     /\ started[s] > 0)
      => storage.rows[s] = sessions[s].status

\* The two chat buttons alone keep the storage in step: a session created by
\* the Start button and stopped by the Stop Session button.
C22_ButtonsStored ==
  \E s \in SessionIds :
    /\ storage.handler[s] = [start |-> "", stop |-> ""]
    /\ sessions[s].status = "stopped"
    /\ storage.rows[s] = "stopped"

\* The start epochs in a closed buffer are multiples of the timeframe and
\* increase strictly.
progression(closed, tf) ==
  /\ \A i \in 1..Len(closed) : closed[i] % tf = 0
  /\ \A i \in 1..(Len(closed) - 1) : closed[i] < closed[i + 1]

\* C24: in a window seeded by initialize (startSession, restartSession) and
\* fed with ticks, the forming candle starts strictly after the last closed
\* candle, also when the first tick after the seeding falls in the bucket of
\* the last history candle or in an older one.
C24_FormingAfterClosed ==
  \A tf \in TimeframeInputs :
    LET w == windows[tf] IN
    (w.forming # None /\ w.closed # <<>>) => w.forming > w.closed[Len(w.closed)]

\* C23: with ticks of strictly increasing epochs, the start epochs of the
\* closed candles of a window are multiples of the timeframe and increase
\* strictly, and a tick whose bucket is older than the forming candle changes
\* nothing.
C23_ClosedProgression ==
  \A tf \in TimeframeInputs :
    LET w == windows[tf] IN
    /\ progression(w.closed, tf)
    /\ \A epoch \in 0..now :
         (w.forming # None /\ getCandleBoundary(epoch, tf) < w.forming)
           => processTick(w, epoch, tf) = w

\* The second half of C23 alone: an out-of-order tick changes nothing.
C23_OutOfOrderIgnored ==
  \A tf \in TimeframeInputs :
    LET w == windows[tf] IN
    \A epoch \in 0..now :
      (w.forming # None /\ getCandleBoundary(epoch, tf) < w.forming)
        => processTick(w, epoch, tf) = w

\* A window whose forming candle is ahead of some bucket a late tick can
\* fall in.
C23_OutOfOrderPossible ==
  \E tf \in TimeframeInputs :
    /\ windows[tf].forming # None
    /\ \E epoch \in 0..now : getCandleBoundary(epoch, tf) < windows[tf].forming

\* The handlers of session s registered on the feed.
handlersOnFeed(s) == Len(SelectSeq(listeners, LAMBDA x : x = s))

\* C30: when two startSession calls with the same id overlap, at most one of
\* them succeeds, and once both have ended the id has one session record, one
\* tick handler on the feed and one pre-close timer chain.
C30_OneStartWins ==
  \A s \in SessionIds :
    /\ started[s] <= 1
    /\ (startCall[s].stage = "idle" /\ secondCall[s].stage = "idle"
          /\ started[s] > 0)
         => /\ handlersOnFeed(s) = 1
            /\ Cardinality(timersOf(s)) <= 1

\* The parts of C30, one by one.
C30_AtMostOneSucceeds == \A s \in SessionIds : started[s] <= 1

C30_OneTickHandler ==
  \A s \in SessionIds :
    (startCall[s].stage = "idle" /\ secondCall[s].stage = "idle" /\ started[s] > 0)
      => handlersOnFeed(s) = 1

C30_OneTimerChain ==
  \A s \in SessionIds :
    (startCall[s].stage = "idle" /\ secondCall[s].stage = "idle")
      => Cardinality(timersOf(s)) <= 1

\* Both calls have returned a session, and the timer the first one armed is
\* pending next to the timer of the session in the table.
C30_BothSucceeded ==
  \E s \in SessionIds :
    /\ started[s] = 2
    /\ startCall[s].stage = "idle" /\ secondCall[s].stage = "idle"
    /\ handlersOnFeed(s) = 2
    /\ Cardinality(timersOf(s)) = 2

\* C38: for each session id sessionStarted is emitted at most once, and never
\* after sessionStopped for that id, also when stopSession is called while
\* startSession awaits the tick subscription.
C38_StartedOnceBeforeStopped ==
  [][\A s \in SessionIds :
       /\ started'[s] <= 1
       /\ stoppedEv[s] > 0 => started'[s] = started[s]]_vars

\* C31: once a session is stopped, a restartSession that was awaiting its
\* history when stopSession ran re-creates no aggregator window for it and
\* re-issues no tick subscription for it.
C31_StoppedHoldsNothing ==
  [][\A s \in SessionIds :
       sessions[s].status = "stopped" =>
         /\ subCalls'[s] = subCalls[s]
         /\ windows'[sessions[s].timeframe].exists
              => windows[sessions[s].timeframe].exists]_vars

\* Both have finished, the session was started and is stopped, and it holds a
\* window and a subscription.
C31_StoppedHoldsResources ==
  \E s \in SoloIds :
    /\ sessions[s].status = "stopped"
    /\ started[s] = 1 /\ stoppedEv[s] = 1
    /\ stopPending[s] = 0
    /\ startCall[s].stage = "idle"
    /\ restartCall[s] = [fetch |-> 0, subscribe |-> 0]
    /\ windows[sessions[s].timeframe].exists
    /\ refCount > 0

\* C32: stopSession on a session that is already stopped has no effect: no
\* unsubscribeTicks is issued, no sessionStopped is emitted and no aggregator
\* window is removed.
C32_StopIdempotent ==
  [][\A s \in SessionIds :
       (sessions[s].status = "stopped" /\ stopPending[s] = 0) =>
         /\ unsubCalls'[s] = unsubCalls[s]
         /\ stoppedEv'[s] = stoppedEv[s]
         /\ stopPending'[s] = 0]_vars

\* The tickCount of the forming candle of a window.
tickCount(tf) == IF windows[tf].forming = None THEN 0 ELSE ticks.count[tf]

\* C34: a tick of the feed is applied at most once to a window, whatever the
\* number of active sessions on it: the tickCount of the forming candle does
\* not exceed the number of ticks the feed delivered in its bucket.
C34_TickAppliedOnce ==
  \A tf \in TimeframeInputs :
    windows[tf].forming = ticks.bucket[tf] => tickCount(tf) <= ticks.received[tf]

\* The step is a step of a startSession, stopSession or restartSession of
\* session s.
stepOf(s) ==
  \/ startCall'[s] # startCall[s]
  \/ stopPending'[s] # stopPending[s]
  \/ restartCall'[s] # restartCall[s]

\* C33: starting, restarting or stopping one session leaves the candle data
\* of every other active session as it is: the forming candle is not cleared
\* and the closed candles are not removed or replaced.
C33_OtherSessionsCandlesKept ==
  [][\A s, o \in SessionIds :
       (/\ s # o
        /\ stepOf(s)
        /\ ~stepOf(o)
        /\ sessions[o].status = "active"
        /\ started[o] > 0)
         => windows'[sessions[o].timeframe] = windows[sessions[o].timeframe]]_vars

\* A started, active session whose window has a forming candle, next to a
\* second session of the same timeframe.
C33_SharedWindow ==
  \E s, o \in SessionIds :
    /\ s # o
    /\ sessions[o].status = "active" /\ started[o] > 0
    /\ sessions[s].status = "active"
    /\ sessions[s].timeframe = sessions[o].timeframe
    /\ windows[sessions[o].timeframe].forming # None

\* C35: between the runs of the session manager's code, every active session
\* whose startSession has completed has exactly one pending pre-close timer,
\* and every stopped session has none.
C35_OnePendingTimer ==
  \A s \in SessionIds :
    /\ (sessions[s].status = "active" /\ started[s] > 0)
         => Cardinality(timersOf(s)) = 1
    /\ sessions[s].status = "stopped" => timersOf(s) = {}


\* C36: in every emitted preCloseSignal that carries a forming candle, the
\* candleCloseTime is the start of that forming candle plus the timeframe of
\* the session.
C36_CloseTimeMatchesForming ==
  \A i \in 1..Len(emitted) :
    emitted[i].formingCandle # None =>
      emitted[i].candleCloseTime =
        emitted[i].formingCandle + sessions[emitted[i].id].timeframe


\* C37: at any time at most one session is active per chat id, whatever the
\* interleaving of the chat front-end's start callbacks and the HTTP
\* startSession calls.
C37_OneActivePerChat ==
  \A c \in ChatIds : Cardinality(getSessionByChatId(c)) <= 1


\* The chat handler has replaced a session: the session it found was stopped
\* and the new one of the same chat has started.
C37_Replaced ==
  \E s, old \in SessionIds :
    /\ s # old
    /\ sessions[old].status = "stopped"
    /\ stoppedEv[old] > 0
    /\ sessions[s].status = "active"
    /\ started[s] > 0
    /\ sessions[s].chatId = sessions[old].chatId


\* C39: a getDebugSignal call, from the Re-run Signal action or not, leaves
\* every session (lastSignalAt, lastSignalCandleTimestamp, timer handle) and
\* the pending timers as they are and emits no preCloseSignal; it returns
\* null exactly when the window of the timeframe has no closed candle.
C39_DebugLeavesSchedule ==
  [][debug'.calls > debug.calls =>
       /\ sessions' = sessions
       /\ timers' = timers
       /\ emitted' = emitted
       /\ debug'.returned = "null" <=> getClosedCandles(debug'.timeframe) = <<>>]_vars

\* The Re-run Signal action has sent a debug signal for the candle whose
\* scheduled signal is still to come: the deadline timer of that candle is
\* pending and the candle has not been signalled.
C39_Witness ==
  \E s \in SoloIds :
    /\ debug.sent > 0
    /\ debug.returned = "signal"
    /\ debug.formingCandle = getFormingCandle(sessions[s].timeframe)
    /\ sessions[s].preCloseTimer \in timers
    /\ sessions[s].preCloseTimer.kind = "deadline"
    /\ sessions[s].preCloseTimer.forming = debug.formingCandle
    /\ sessions[s].lastSignalCandleTimestamp # debug.formingCandle


\* The signals of a session that the storage holds, oldest first.
signalsOf(sessionId) ==
  SelectSeq(mem.signals, LAMBDA x : x.sessionId = sessionId)

\* getSignals returned only signals of the session asked for.
C40_OnlyThatSession ==
  mem.asked => \A i \in 1..Len(mem.result) :
                 mem.result[i].sessionId = mem.sessionId

\* getSignals returned at most limit signals.
C40_AtMostLimit == mem.asked => Len(mem.result) <= mem.limit

\* getSignals returned the newest signals of the session, newest first.
C40_NewestFirst ==
  mem.asked =>
    \A i \in 1..Len(mem.result) :
      mem.result[i] = signalsOf(mem.sessionId)[Len(signalsOf(mem.sessionId)) - i + 1]

\* The storage holds at most signalsCap signals.
C40_Capped == Len(mem.signals) <= signalsCap

\* C40: after any sequence of saveSignal calls, getSignals(sessionId, limit)
\* returns only signals of that session, at most limit of them (none for
\* limit 0), the most recently saved first, and the storage never holds more
\* than 10000 signals.
C40_GetSignals ==
  /\ C40_OnlyThatSession
  /\ C40_AtMostLimit
  /\ C40_NewestFirst
  /\ C40_Capped

\* The list was cut: the cap was passed and the storage holds the last
\* signalsKept signals and what was saved since.
C40_Cut ==
  /\ mem.serial > signalsCap
  /\ Len(mem.signals) >= signalsKept
  /\ Len(mem.signals) < signalsCap

====
